---- MODULE Spec2Model ----
(***************************************************************************)
(* Model of the billing application (billing_app): the Menu, Order,        *)
(* OrderItem and Expense tables, the session cart, the billing views of    *)
(* views.py and the aggregation functions of utils.py.                     *)
(*                                                                         *)
(* Money is a DecimalField with two decimal places; it is modelled as an   *)
(* integer number of hundredths.  A datetime is a tuple <<y, m, d, t>>     *)
(* (t: the instant within the day), a date a tuple <<y, m, d>>.            *)
(*                                                                         *)
(* inflight holds the requests whose view has read the session cart and    *)
(* has not yet written it back; the views that run alone leave it empty.   *)
(***************************************************************************)
EXTENDS Integers, Sequences, FiniteSets, TLC

VARIABLES Menu, Order, OrderItem, Expense, seq, session, now, resp, inflight

vars == <<Menu, Order, OrderItem, Expense, seq, session, now, resp, inflight>>

(***************************************************************************)
(* Bounds of the model.                                                    *)
(***************************************************************************)
MaxOrders == 2
MaxQty == 2
MaxExpenses == 2

MenuPks == {1, 2}
Names == {"Idly", "Poori"}
Prices == {1500, 4000}
Amounts == {3000, 5000}
Sessions == {"s1"}
Methods == {"POST", "GET"}
UuidPrefixes == {"0A1B2C3D", "4E5F6A7B"}
Instants == { <<2023, 12, 31, 0>>, <<2024, 1, 1, 0>>, <<2024, 1, 1, 1>>,
              <<2024, 1, 31, 0>>, <<2024, 2, 1, 0>>, <<2025, 1, 1, 0>> }
None == <<>>

(***************************************************************************)
(* Generic helpers: table rows, sums.                                      *)
(***************************************************************************)
Insert(table, pk, row) == table @@ (pk :> row)

Delete(table, pks) == [k \in (DOMAIN table) \ pks |-> table[k]]

RECURSIVE SumOver(_, _)
SumOver(f, S) ==
    IF S = {} THEN 0
    ELSE LET k == CHOOSE x \in S : TRUE IN f[k] + SumOver(f, S \ {k})

RECURSIVE SeqSum(_)
SeqSum(s) == IF s = <<>> THEN 0 ELSE Head(s) + SeqSum(Tail(s))

(***************************************************************************)
(* Dates and datetimes.                                                    *)
(***************************************************************************)
DateOf(dt) == <<dt[1], dt[2], dt[3]>>

DateLe(a, b) ==
    \/ a[1] < b[1]
    \/ a[1] = b[1] /\ a[2] < b[2]
    \/ a[1] = b[1] /\ a[2] = b[2] /\ a[3] <= b[3]

DtLe(a, b) ==
    \/ DateOf(a) # DateOf(b) /\ DateLe(DateOf(a), DateOf(b))
    \/ DateOf(a) = DateOf(b) /\ a[4] <= b[4]

(***************************************************************************)
(* Decimal <-> str, as the cart stores a price: str(Decimal('15.00')) is   *)
(* '15.00', read back with Decimal('15.00').  The string is modelled by    *)
(* its integer part and its two fraction digits.                           *)
(***************************************************************************)
DecimalStr(c) == [units |-> c \div 100, frac |-> <<(c % 100) \div 10, c % 10>>]

DecimalOf(s) == s.units * 100 + s.frac[1] * 10 + s.frac[2]

(***************************************************************************)
(* Order.generate_order_number / Order.save: the date stamp and the first  *)
(* eight characters of a uuid4, drawn at random.                           *)
(***************************************************************************)
generate_order_number(uuid) == <<"ORD", DateOf(now), uuid>>

OrderNumberTaken(number) == \E o \in DOMAIN Order : Order[o].order_number = number

(***************************************************************************)
(* Responses.                                                              *)
(***************************************************************************)
JsonFail(op, msg) ==
    [op |-> op, status_code |-> 200, success |-> FALSE, message |-> msg]

Http404(op) == [op |-> op, status_code |-> 404]

Redirect(op) == [op |-> op, status_code |-> 302]

(***************************************************************************)
(* The session cart: request.session['cart'], a dict in insertion order    *)
(* from item key (str(menu_item_id)) to {id, name, price, quantity}.  It   *)
(* is modelled as the sequence of its lines, each carrying its key.        *)
(***************************************************************************)
CartKeys(cart) == {cart[i].key : i \in DOMAIN cart}

CartIndex(cart, key) == CHOOSE i \in DOMAIN cart : cart[i].key = key

CartWithout(cart, key) ==
    LET RECURSIVE Drop(_)
        Drop(c) == IF c = <<>> THEN <<>>
                   ELSE IF Head(c).key = key THEN Drop(Tail(c))
                   ELSE <<Head(c)>> \o Drop(Tail(c))
    IN Drop(cart)

\* sum(item['quantity'] for item in cart.values())
cart_count(cart) == SeqSum([i \in DOMAIN cart |-> cart[i].quantity])

\* sum(Decimal(item['price']) * item['quantity'] for item in cart.values())
cart_total(cart) ==
    SeqSum([i \in DOMAIN cart |-> DecimalOf(cart[i].price) * cart[i].quantity])

(***************************************************************************)
(* Menu management views (views.py, login required).                       *)
(***************************************************************************)
menu_add(method, name, price, is_available) ==
    /\ IF method = "POST"
       THEN /\ Menu' = Insert(Menu, seq.Menu + 1,
                    [name |-> name, price |-> price, is_available |-> is_available,
                     created_at |-> now])
            /\ seq' = [seq EXCEPT !.Menu = @ + 1]
            /\ resp' = Redirect("menu_add")
       ELSE /\ UNCHANGED <<Menu, seq>>
            /\ resp' = [op |-> "menu_add", status_code |-> 200]
    /\ UNCHANGED <<Order, OrderItem, Expense, session, now, inflight>>

\* Mutant: editing a menu item also rewrites the price of its OrderItems.
menu_edit_Reprices(method, pk, name, price, is_available) ==
    /\ IF pk \notin DOMAIN Menu
       THEN /\ UNCHANGED <<Menu, OrderItem>>
            /\ resp' = Http404("menu_edit")
       ELSE IF method = "POST"
       THEN /\ Menu' = [Menu EXCEPT ![pk] = [@ EXCEPT !.name = name, !.price = price,
                                                  !.is_available = is_available]]
            /\ OrderItem' = [i \in DOMAIN OrderItem |->
                                IF OrderItem[i].menu_item = pk
                                THEN [OrderItem[i] EXCEPT !.price = price]
                                ELSE OrderItem[i]]
            /\ resp' = Redirect("menu_edit")
       ELSE /\ UNCHANGED <<Menu, OrderItem>>
            /\ resp' = [op |-> "menu_edit", status_code |-> 200]
    /\ UNCHANGED <<Order, Expense, seq, session, now, inflight>>

menu_edit(method, pk, name, price, is_available) ==
    /\ IF pk \notin DOMAIN Menu
       THEN /\ UNCHANGED Menu
            /\ resp' = Http404("menu_edit")
       ELSE IF method = "POST"
       THEN /\ Menu' = [Menu EXCEPT ![pk] = [@ EXCEPT !.name = name, !.price = price,
                                                  !.is_available = is_available]]
            /\ resp' = Redirect("menu_edit")
       ELSE /\ UNCHANGED Menu
            /\ resp' = [op |-> "menu_edit", status_code |-> 200]
    /\ UNCHANGED <<Order, OrderItem, Expense, seq, session, now, inflight>>

\* Mutant: deleting a menu item leaves the OrderItems that reference it.
CascadeOrderItems_None(pk) == {}

\* OrderItem.menu_item is on_delete=CASCADE: the rows deleted with Menu row pk.
CascadeOrderItems(pk) == {i \in DOMAIN OrderItem : OrderItem[i].menu_item = pk}

\* menu_item.delete()
menu_delete(method, pk) ==
    /\ IF pk \notin DOMAIN Menu
       THEN /\ UNCHANGED <<Menu, OrderItem>>
            /\ resp' = Http404("menu_delete")
       ELSE IF method = "POST"
       THEN /\ Menu' = Delete(Menu, {pk})
            /\ OrderItem' = Delete(OrderItem, CascadeOrderItems(pk))
            /\ resp' = Redirect("menu_delete")
       ELSE /\ UNCHANGED <<Menu, OrderItem>>
            /\ resp' = [op |-> "menu_delete", status_code |-> 200]
    /\ UNCHANGED <<Order, Expense, seq, session, now, inflight>>

\* No check of request.method: every request toggles.
menu_toggle_availability(method, pk) ==
    /\ IF pk \notin DOMAIN Menu
       THEN /\ UNCHANGED Menu
            /\ resp' = Http404("menu_toggle_availability")
       ELSE /\ Menu' = [Menu EXCEPT ![pk].is_available = ~@]
            /\ resp' = Redirect("menu_toggle_availability")
    /\ UNCHANGED <<Order, OrderItem, Expense, seq, session, now, inflight>>

(***************************************************************************)
(* Cart views (views.py, AJAX).                                            *)
(***************************************************************************)
\* The cart after add_to_cart has put menu_item (the row read from Menu,
\* with its id) into it.
CartAfterAdd(cart, menu_item) ==
    IF menu_item.id \in CartKeys(cart)
    THEN [cart EXCEPT ![CartIndex(cart, menu_item.id)].quantity = @ + 1]
    ELSE Append(cart, [key |-> menu_item.id,
                       id |-> menu_item.id,
                       name |-> menu_item.name,
                       price |-> DecimalStr(menu_item.price),
                       quantity |-> 1])

\* get_object_or_404(Menu, pk=menu_item_id, is_available=True)
MenuItemRead(menu_item_id) ==
    [id |-> menu_item_id, name |-> Menu[menu_item_id].name,
     price |-> Menu[menu_item_id].price]

add_to_cart(s, method, menu_item_id) ==
    LET cart == session[s]
        newcart == CartAfterAdd(cart, MenuItemRead(menu_item_id))
    IN
    /\ IF method # "POST"
       THEN /\ UNCHANGED session
            /\ resp' = JsonFail("add_to_cart", "Invalid request")
       ELSE IF menu_item_id \notin DOMAIN Menu \/ ~Menu[menu_item_id].is_available
       THEN /\ UNCHANGED session
            /\ resp' = JsonFail("add_to_cart", "No Menu matches the given query.")
       ELSE /\ session' = [session EXCEPT ![s] = newcart]
            /\ resp' = [op |-> "add_to_cart", status_code |-> 200, success |-> TRUE,
                        message |-> "added to cart",
                        cart_count |-> cart_count(newcart)]
    /\ UNCHANGED <<Menu, Order, OrderItem, Expense, seq, now, inflight>>

\* Mutant: only a negative quantity removes the line; zero is stored.
RemovesLine_OnlyNegative(quantity) == quantity < 0

\* if quantity <= 0: del cart[item_key]
RemovesLine(quantity) == quantity <= 0

\* The cart after update_cart_item has set the quantity of a line it holds.
CartAfterUpdate(cart, menu_item_id, quantity) ==
    IF RemovesLine(quantity)
    THEN CartWithout(cart, menu_item_id)
    ELSE [cart EXCEPT ![CartIndex(cart, menu_item_id)].quantity = quantity]

update_cart_item(s, method, menu_item_id, quantity) ==
    LET cart == session[s]
        newcart == CartAfterUpdate(cart, menu_item_id, quantity)
    IN
    /\ IF method # "POST"
       THEN /\ UNCHANGED session
            /\ resp' = JsonFail("update_cart_item", "Invalid request")
       ELSE IF menu_item_id \notin CartKeys(cart)
       THEN /\ UNCHANGED session
            /\ resp' = JsonFail("update_cart_item", "Item not found in cart")
       ELSE /\ session' = [session EXCEPT ![s] = newcart]
            /\ resp' = [op |-> "update_cart_item", status_code |-> 200,
                        success |-> TRUE,
                        cart_count |-> cart_count(newcart),
                        total |-> DecimalStr(cart_total(newcart))]
    /\ UNCHANGED <<Menu, Order, OrderItem, Expense, seq, now, inflight>>

remove_from_cart(s, method, menu_item_id) ==
    LET cart == session[s]
        newcart == CartWithout(cart, menu_item_id)
    IN
    /\ IF method # "POST"
       THEN /\ UNCHANGED session
            /\ resp' = JsonFail("remove_from_cart", "Invalid request")
       ELSE IF menu_item_id \notin CartKeys(cart)
       THEN /\ UNCHANGED session
            /\ resp' = JsonFail("remove_from_cart", "Item not found in cart")
       ELSE /\ session' = [session EXCEPT ![s] = newcart]
            /\ resp' = [op |-> "remove_from_cart", status_code |-> 200,
                        success |-> TRUE,
                        cart_count |-> cart_count(newcart),
                        total |-> DecimalStr(cart_total(newcart))]
    /\ UNCHANGED <<Menu, Order, OrderItem, Expense, seq, now, inflight>>

\* Mutant: clearing the cart clears the cart of every session.
clear_cart_EverySession(s, method) ==
    /\ session' = [t \in DOMAIN session |-> <<>>]
    /\ resp' = [op |-> "clear_cart", status_code |-> 200, success |-> TRUE,
                message |-> "Cart cleared"]
    /\ UNCHANGED <<Menu, Order, OrderItem, Expense, seq, now, inflight>>

\* No check of request.method.
clear_cart(s, method) ==
    /\ session' = [session EXCEPT ![s] = <<>>]
    /\ resp' = [op |-> "clear_cart", status_code |-> 200, success |-> TRUE,
                message |-> "Cart cleared"]
    /\ UNCHANGED <<Menu, Order, OrderItem, Expense, seq, now, inflight>>

(***************************************************************************)
(* create_order (views.py).  The view opens no transaction and catches     *)
(* every exception itself: each objects.create() is committed on its own,  *)
(* and what was written before an exception stays written.                 *)
(***************************************************************************)
\* The first cart line whose Menu.objects.get(pk=item['id']) raises
\* DoesNotExist; Len(cart) + 1 when every line's menu item exists.
FirstMissing(cart) ==
    LET missing == {i \in DOMAIN cart : cart[i].id \notin DOMAIN Menu}
    IN IF missing = {} THEN Len(cart) + 1
       ELSE CHOOSE i \in missing : \A j \in missing : i <= j

\* The OrderItem rows written by the loop before it ends or raises.
\* Mutant: the OrderItem takes the price the menu item has when the order is
\* created, not the price the cart line holds.
NewOrderItems_MenuPrice(cart, order_pk) ==
    [pk \in {seq.OrderItem + i : i \in 1..(FirstMissing(cart) - 1)} |->
        LET item == cart[pk - seq.OrderItem]
        IN [order |-> order_pk, menu_item |-> item.id,
            quantity |-> item.quantity, price |-> Menu[item.id].price]]

NewOrderItems(cart, order_pk) ==
    [pk \in {seq.OrderItem + i : i \in 1..(FirstMissing(cart) - 1)} |->
        LET item == cart[pk - seq.OrderItem]
        IN [order |-> order_pk, menu_item |-> item.id,
            quantity |-> item.quantity, price |-> DecimalOf(item.price)]]

NewOrder(total_amount, uuid) ==
    [order_number |-> generate_order_number(uuid), total_amount |-> total_amount,
     status |-> "pending", created_at |-> now]

\* Mutant: the cart is not cleared after the order is created.
CartAfterOrder_NotCleared(cart) == cart

\* The session cart after the loop over the cart lines has run to its end.
CartAfterOrder(cart) == <<>>

\* Mutant: the empty-cart test is missing.
CartIsEmpty_Never(cart) == FALSE

\* if not cart
CartIsEmpty(cart) == cart = <<>>

create_order(s, method, uuid) ==
    LET cart == session[s]
        total_amount == cart_total(cart)
        order_pk == seq.Order + 1
        items == NewOrderItems(cart, order_pk)
    IN
    /\ IF method # "POST"
       THEN /\ UNCHANGED <<Order, OrderItem, seq, session>>
            /\ resp' = JsonFail("create_order", "Invalid request")
       ELSE IF CartIsEmpty(cart)
       THEN /\ UNCHANGED <<Order, OrderItem, seq, session>>
            /\ resp' = JsonFail("create_order", "Cart is empty")
       ELSE IF OrderNumberTaken(generate_order_number(uuid))
       THEN \* Order.objects.create raises IntegrityError (order_number is unique)
            /\ UNCHANGED <<Order, OrderItem, seq, session>>
            /\ resp' = JsonFail("create_order", "UNIQUE constraint failed")
       ELSE /\ Order' = Insert(Order, order_pk, NewOrder(total_amount, uuid))
            /\ OrderItem' = OrderItem @@ items
            /\ seq' = [seq EXCEPT !.Order = order_pk,
                                  !.OrderItem = @ + Cardinality(DOMAIN items)]
            /\ IF FirstMissing(cart) <= Len(cart)
               THEN /\ UNCHANGED session
                    /\ resp' = JsonFail("create_order",
                                        "Menu matching query does not exist.")
               ELSE /\ session' = [session EXCEPT ![s] = CartAfterOrder(cart)]
                    /\ resp' = [op |-> "create_order", status_code |-> 200,
                                success |-> TRUE, order_id |-> order_pk,
                                order_number |-> generate_order_number(uuid),
                                message |-> "Order created successfully!"]
    /\ UNCHANGED <<Menu, Expense, now, inflight>>

(***************************************************************************)
(* pay_now (views.py): the status is set to 'paid' whatever it was.        *)
(***************************************************************************)
PaidStatus(old) == "paid"

pay_now(method, order_id) ==
    /\ IF method # "POST"
       THEN /\ UNCHANGED Order
            /\ resp' = JsonFail("pay_now", "Invalid request")
       ELSE IF order_id \notin DOMAIN Order
       THEN /\ UNCHANGED Order
            /\ resp' = Http404("pay_now")
       ELSE /\ Order' = [Order EXCEPT ![order_id].status = PaidStatus(@)]
            /\ resp' = [op |-> "pay_now", status_code |-> 200, success |-> TRUE,
                        order_id |-> order_id,
                        message |-> "Order marked as paid!"]
    /\ UNCHANGED <<Menu, OrderItem, Expense, seq, session, now, inflight>>

(***************************************************************************)
(* The admin site (admin.py): OrderAdmin leaves status editable, and it is *)
(* the only place where an order is cancelled.                             *)
(***************************************************************************)
ORDER_STATUS == {"pending", "paid", "cancelled"}

OrderAdmin_change(order_id, status) ==
    /\ order_id \in DOMAIN Order
    /\ status \in ORDER_STATUS
    /\ Order' = [Order EXCEPT ![order_id].status = status]
    /\ resp' = Redirect("OrderAdmin_change")
    /\ UNCHANGED <<Menu, OrderItem, Expense, seq, session, now, inflight>>

(***************************************************************************)
(* The billing specification: menu management, cart, order, payment.       *)
(***************************************************************************)
Init ==
    /\ Menu = <<>>
    /\ Order = <<>>
    /\ OrderItem = <<>>
    /\ Expense = <<>>
    /\ seq = [Menu |-> 0, Order |-> 0, OrderItem |-> 0, Expense |-> 0]
    /\ session = [s \in Sessions |-> <<>>]
    /\ now = <<2024, 1, 1, 0>>
    /\ resp = [op |-> "none", status_code |-> 0]
    /\ inflight = <<>>

CartQuantity(s, key) ==
    IF key \in CartKeys(session[s])
    THEN session[s][CartIndex(session[s], key)].quantity ELSE 0

\* seed_menu's items, in the order the command creates them.
SeedItems == << [name |-> "Idly", price |-> 1500], [name |-> "Dosai", price |-> 4000] >>

Next ==
    \/ /\ seq.Menu < Len(SeedItems)
       /\ menu_add("POST", SeedItems[seq.Menu + 1].name, SeedItems[seq.Menu + 1].price, TRUE)
    \/ \E pk \in DOMAIN Menu : menu_delete("POST", pk)
    \/ \E s \in Sessions, id \in DOMAIN Menu :
          /\ CartQuantity(s, id) < MaxQty
          /\ add_to_cart(s, "POST", id)
    \/ \E s \in Sessions, q \in 0..MaxQty :
          \E id \in CartKeys(session[s]) : update_cart_item(s, "POST", id, q)
    \/ \E s \in Sessions :
          \E id \in CartKeys(session[s]) : remove_from_cart(s, "POST", id)
    \/ \E s \in Sessions : clear_cart(s, "POST")
    \/ \E s \in Sessions, m \in Methods, u \in UuidPrefixes : create_order(s, m, u)

Spec == Init /\ [][Next]_vars

(***************************************************************************)
(* The payment specification: one menu item, orders of one line, payment   *)
(* and the admin's cancellation of a pending order.                        *)
(***************************************************************************)
NextPay ==
    \/ /\ seq.Menu = 0
       /\ menu_add("POST", SeedItems[1].name, SeedItems[1].price, TRUE)
    \/ \E s \in Sessions, id \in DOMAIN Menu :
          /\ CartQuantity(s, id) < MaxQty
          /\ add_to_cart(s, "POST", id)
    \/ \E s \in Sessions, u \in UuidPrefixes : create_order(s, "POST", u)
    \/ \E m \in Methods, o \in DOMAIN Order \cup {seq.Order + 1} : pay_now(m, o)
    \/ \E o \in DOMAIN Order :
          /\ Order[o].status = "pending"
          /\ OrderAdmin_change(o, "cancelled")

SpecPay == Init /\ [][NextPay]_vars

(***************************************************************************)
(* Aggregation functions (utils.py).  A queryset is the set of the primary *)
(* keys of its rows; the functions read the store and write nothing.       *)
(***************************************************************************)
\* if user_date_joined: qs = qs.filter(created_at__gte=user_date_joined)
FilterJoined(table, qs, user_date_joined) ==
    IF user_date_joined # None
    THEN {k \in qs : DtLe(user_date_joined, table[k].created_at)}
    ELSE qs

\* Mutant: the status filter is missing.
DailyOrders_AnyStatus(date) ==
    {o \in DOMAIN Order : DateOf(Order[o].created_at) = date}

\* Order.objects.filter(created_at__date=date, status='paid')
DailyOrders(date) ==
    {o \in DOMAIN Order : DateOf(Order[o].created_at) = date /\ Order[o].status = "paid"}

\* Mutant: the year filter is missing.
MonthlyOrders_AnyYear(year, month) ==
    {o \in DOMAIN Order : Order[o].created_at[2] = month /\ Order[o].status = "paid"}

\* Order.objects.filter(created_at__year=year, created_at__month=month, status='paid')
MonthlyOrders(year, month) ==
    {o \in DOMAIN Order : /\ Order[o].created_at[1] = year
                          /\ Order[o].created_at[2] = month
                          /\ Order[o].status = "paid"}

\* Mutant: the end of the range is exclusive.
RangeExpenses_EndExclusive(start_date, end_date) ==
    {e \in DOMAIN Expense : /\ DateLe(start_date, Expense[e].date)
                            /\ DateLe(Expense[e].date, end_date)
                            /\ Expense[e].date # end_date}

\* Expense.objects.filter(date__range=[start_date, end_date])
RangeExpenses(start_date, end_date) ==
    {e \in DOMAIN Expense : /\ DateLe(start_date, Expense[e].date)
                            /\ DateLe(Expense[e].date, end_date)}

TotalAmounts == [o \in DOMAIN Order |-> Order[o].total_amount]

ExpenseAmounts == [e \in DOMAIN Expense |-> Expense[e].amount]

\* Mutant: the function keeps the result of its last call and returns it
\* again, whatever the arguments.
calculate_daily_sales_Memo(date, user_date_joined) ==
    IF resp.op = "calculate_daily_sales" THEN resp.result
    ELSE LET orders == FilterJoined(Order, DailyOrders(date), user_date_joined)
         IN [date |-> date,
             total_sales |-> SumOver(TotalAmounts, orders),
             total_orders |-> Cardinality(orders),
             orders |-> orders]

calculate_daily_sales(date, user_date_joined) ==
    LET orders == FilterJoined(Order, DailyOrders(date), user_date_joined)
    IN [date |-> date,
        total_sales |-> SumOver(TotalAmounts, orders),
        total_orders |-> Cardinality(orders),
        orders |-> orders]

calculate_monthly_sales(year, month, user_date_joined) ==
    LET orders == FilterJoined(Order, MonthlyOrders(year, month), user_date_joined)
    IN [year |-> year,
        month |-> month,
        total_sales |-> SumOver(TotalAmounts, orders),
        total_orders |-> Cardinality(orders),
        orders |-> orders]

calculate_expenses(start_date, end_date, user_date_joined) ==
    LET expenses == FilterJoined(Expense, RangeExpenses(start_date, end_date),
                                 user_date_joined)
    IN [start_date |-> start_date,
        end_date |-> end_date,
        total_expenses |-> SumOver(ExpenseAmounts, expenses),
        expenses |-> expenses]

(***************************************************************************)
(* The reports specification.  The aggregation functions are functions of  *)
(* the store and their arguments: the initial states are stores the        *)
(* program reaches (one menu item; orders of one line each, created at     *)
(* non-decreasing instants and then paid or cancelled or left pending; or  *)
(* expenses entered at non-decreasing instants), and the actions are the   *)
(* calls of the functions, whose result becomes the response.              *)
(***************************************************************************)
ReportInstants == Instants \ { <<2023, 12, 31, 0>> }

ReportDates == {DateOf(t) : t \in ReportInstants} \cup { <<2024, 1, 2>> }

ReportMonths == { <<2024, 1>>, <<2024, 2>>, <<2025, 1>>, <<2024, 12>> }

ReportJoined == { None, <<2024, 1, 1, 1>> }

ExpenseDates == { <<2024, 1, 1>>, <<2024, 1, 5>>, <<2024, 1, 31>>, <<2024, 2, 1>> }

Latest(table) ==
    IF DOMAIN table = {} THEN <<2024, 1, 1, 0>>
    ELSE table[CHOOSE k \in DOMAIN table : \A j \in DOMAIN table : j <= k].created_at

NonDecreasing(table) ==
    \A j, k \in DOMAIN table : j <= k => DtLe(table[j].created_at, table[k].created_at)

OrderQuantities == {1, 2}

OrderRows ==
    [order_number : {None}, total_amount : {SeedItems[1].price * q : q \in OrderQuantities},
     status : ORDER_STATUS, created_at : ReportInstants]

ExpenseInstants == { <<2024, 1, 1, 0>>, <<2024, 1, 1, 1>>, <<2024, 2, 1, 0>> }

ExpenseRows == [date : ExpenseDates, amount : Amounts, created_at : ExpenseInstants]

InitOrders ==
    /\ \E n \in 0..MaxOrders : \E t \in [1..n -> OrderRows] :
          /\ NonDecreasing(t)
          /\ Order = [o \in 1..n |->
                        [t[o] EXCEPT !.order_number =
                            <<"ORD", DateOf(t[o].created_at), ToString(o)>>]]
    /\ OrderItem = [o \in DOMAIN Order |->
                      [order |-> o, menu_item |-> 1,
                       quantity |-> Order[o].total_amount \div SeedItems[1].price,
                       price |-> SeedItems[1].price]]
    /\ Expense = <<>>

InitExpenses ==
    /\ \E n \in 1..MaxExpenses : \E t \in [1..n -> ExpenseRows] :
          /\ NonDecreasing(t)
          /\ Expense = t
    /\ Order = <<>>
    /\ OrderItem = <<>>

InitReports ==
    /\ InitOrders \/ InitExpenses
    /\ Menu = (1 :> [name |-> SeedItems[1].name, price |-> SeedItems[1].price,
                     is_available |-> TRUE, created_at |-> <<2024, 1, 1, 0>>])
    /\ seq = [Menu |-> 1, Order |-> Cardinality(DOMAIN Order),
              OrderItem |-> Cardinality(DOMAIN OrderItem),
              Expense |-> Cardinality(DOMAIN Expense)]
    /\ session = [s \in Sessions |-> <<>>]
    /\ now = IF Order # <<>> THEN Latest(Order) ELSE Latest(Expense)
    /\ resp = [op |-> "none", status_code |-> 0]
    /\ inflight = <<>>

daily_sales_report(date, user_date_joined) ==
    /\ resp' = [op |-> "calculate_daily_sales", joined |-> user_date_joined,
                result |-> calculate_daily_sales(date, user_date_joined)]
    /\ UNCHANGED <<Menu, Order, OrderItem, Expense, seq, session, now, inflight>>

monthly_sales_report(year, month, user_date_joined) ==
    /\ resp' = [op |-> "calculate_monthly_sales", joined |-> user_date_joined,
                result |-> calculate_monthly_sales(year, month, user_date_joined)]
    /\ UNCHANGED <<Menu, Order, OrderItem, Expense, seq, session, now, inflight>>

expenses_report(start_date, end_date, user_date_joined) ==
    /\ resp' = [op |-> "calculate_expenses", joined |-> user_date_joined,
                result |-> calculate_expenses(start_date, end_date, user_date_joined)]
    /\ UNCHANGED <<Menu, Order, OrderItem, Expense, seq, session, now, inflight>>

NextReports ==
    \/ \E d \in ReportDates, j \in ReportJoined :
          /\ Order # <<>>
          /\ daily_sales_report(d, j)
    \/ \E ym \in ReportMonths, j \in ReportJoined :
          /\ Order # <<>>
          /\ monthly_sales_report(ym[1], ym[2], j)
    \/ \E d1, d2 \in ExpenseDates, j \in ReportJoined :
          /\ Expense # <<>>
          /\ expenses_report(d1, d2, j)

SpecReports == InitReports /\ [][NextReports]_vars

(***************************************************************************)
(* Properties of the order builder and of payment.                         *)
(***************************************************************************)
ItemsOf(o) == {i \in DOMAIN OrderItem : OrderItem[i].order = o}

Subtotals == [i \in DOMAIN OrderItem |-> OrderItem[i].quantity * OrderItem[i].price]

\* C1: every persisted Order has total_amount equal to the sum of
\* quantity * price over its current OrderItems.
C1_TotalIsSumOfItems ==
    \A o \in DOMAIN Order : Order[o].total_amount = SumOver(Subtotals, ItemsOf(o))

AllLinesExist(cart) == \A i \in DOMAIN cart : cart[i].id \in DOMAIN Menu

LineSubtotals(cart) ==
    [i \in DOMAIN cart |-> cart[i].quantity * DecimalOf(cart[i].price)]

\* What C2 promises of a create_order step on the cart of session s.
C2_Post(s) ==
    LET cart == session[s]
        newOrders == (DOMAIN Order') \ (DOMAIN Order)
        newItems == (DOMAIN OrderItem') \ (DOMAIN OrderItem)
    IN /\ resp'.success
       /\ Cardinality(newOrders) = 1
       /\ \A o \in newOrders :
            /\ Order'[o].status = "pending"
            /\ Order'[o].total_amount = SumOver(LineSubtotals(cart), DOMAIN cart)
            /\ resp'.order_id = o
            /\ resp'.order_number = Order'[o].order_number
            /\ \A i \in newItems : OrderItem'[i].order = o
       /\ Cardinality(newItems) = Len(cart)
       /\ \A k \in DOMAIN cart :
            \E i \in newItems :
               /\ OrderItem'[i].menu_item = cart[k].id
               /\ OrderItem'[i].quantity = cart[k].quantity
               /\ OrderItem'[i].price = DecimalOf(cart[k].price)
       /\ \A o \in DOMAIN Order : Order'[o] = Order[o]
       /\ \A i \in DOMAIN OrderItem : OrderItem'[i] = OrderItem[i]

\* C2: create_order with a non-empty cart whose lines all reference existing
\* menu items persists exactly one new pending Order with the cart's total and
\* one OrderItem per cart line, and returns success with its id and number.
C2_CreateOrderPersists ==
    [][resp'.op = "create_order" => \A s \in Sessions, u \in UuidPrefixes :
          (/\ create_order(s, "POST", u)
           /\ session[s] # <<>>
           /\ AllLinesExist(session[s]))
          => C2_Post(s)]_vars

\* C3: a create_order that reports failure leaves the Orders and OrderItems
\* as they were before the call.
C3_FailureWritesNothing ==
    [][resp'.op = "create_order" => \A s \in Sessions, m \in Methods, u \in UuidPrefixes :
          (create_order(s, m, u) /\ ~resp'.success)
          => (Order' = Order /\ OrderItem' = OrderItem)]_vars

\* C4: after create_order returns success the session's cart is empty; after
\* it returns failure the cart is what it was before the call.
C4_CartClearedOnlyOnSuccess ==
    [][resp'.op = "create_order" => \A s \in Sessions, m \in Methods, u \in UuidPrefixes :
          create_order(s, m, u)
          => /\ resp'.success => session'[s] = <<>>
             /\ ~resp'.success => session'[s] = session[s]]_vars

C4_Witness ==
    /\ resp.op = "create_order"
    /\ ~resp.success
    /\ resp.message = "Menu matching query does not exist."
    /\ \E s \in Sessions : Len(session[s]) = 2
    /\ Order # <<>>

\* C5: create_order on an empty cart returns a failure response and creates
\* no Order and no OrderItem.
C5_EmptyCartFails ==
    [][resp'.op = "create_order" => \A s \in Sessions, m \in Methods, u \in UuidPrefixes :
          (create_order(s, m, u) /\ session[s] = <<>>)
          => (~resp'.success /\ Order' = Order /\ OrderItem' = OrderItem)]_vars

C5_Witness ==
    /\ resp.op = "create_order"
    /\ ~resp.success
    /\ resp.message = "Cart is empty"
    /\ \A s \in Sessions : session[s] = <<>>
    /\ Menu # <<>>

\* C6: pay_now on an order that is not pending leaves its status unchanged
\* and returns success; only a pending order is moved to paid.
C6_PayNowOnlyFromPending ==
    [][resp'.op = "pay_now" => \A o \in DOMAIN Order :
          pay_now("POST", o)
          => /\ resp'.success
             /\ Order[o].status # "pending" => Order'[o].status = Order[o].status
             /\ Order[o].status = "pending" => Order'[o].status = "paid"]_vars

\* C7: once an order's status is paid or cancelled, it never changes again.
C7_PaidAndCancelledTerminal ==
    [][\A o \in DOMAIN Order :
          Order[o].status \in {"paid", "cancelled"}
          => Order'[o].status = Order[o].status]_vars


(***************************************************************************)
(* Properties of the aggregation functions.                                *)
(***************************************************************************)
\* The sum of f over the keys of S for which the predicate holds.
Indicator(f, P) == [k \in DOMAIN f |-> IF P[k] THEN f[k] ELSE 0]

AtOrAfter(joined, created_at) == joined = None \/ DtLe(joined, created_at)

CountsOn(date, joined) ==
    [o \in DOMAIN Order |->
        /\ Order[o].status = "paid"
        /\ DateOf(Order[o].created_at) = date
        /\ AtOrAfter(joined, Order[o].created_at)]

CountsIn(year, month, joined) ==
    [o \in DOMAIN Order |->
        /\ Order[o].status = "paid"
        /\ Order[o].created_at[1] = year
        /\ Order[o].created_at[2] = month
        /\ AtOrAfter(joined, Order[o].created_at)]

\* C8: calculate_daily_sales returns the sum of total_amount over exactly the
\* paid orders created on the date (and at or after the floor, when given),
\* and their number; pending and cancelled orders never contribute.
C8_DailySales ==
    resp.op = "calculate_daily_sales" =>
        LET r == resp.result
            counts == CountsOn(r.date, resp.joined)
        IN /\ r.orders = {o \in DOMAIN Order : counts[o]}
           /\ r.total_sales = SumOver(Indicator(TotalAmounts, counts), DOMAIN Order)
           /\ r.total_orders = Cardinality({o \in DOMAIN Order : counts[o]})
           /\ \A o \in r.orders : Order[o].status \notin {"pending", "cancelled"}

\* One paid and one pending order of the same day, a floor given: only the
\* paid one counts.
C8_Witness ==
    /\ resp.op = "calculate_daily_sales"
    /\ resp.joined # None
    /\ resp.result.total_orders = 1
    /\ resp.result.total_sales = 3000
    /\ \E o \in DOMAIN Order :
          /\ Order[o].status = "pending"
          /\ DateOf(Order[o].created_at) = resp.result.date

IsLeap(y) == (y % 4 = 0 /\ y % 100 # 0) \/ y % 400 = 0

DaysInMonth(y, m) ==
    IF m = 2 THEN (IF IsLeap(y) THEN 29 ELSE 28)
    ELSE IF m \in {4, 6, 9, 11} THEN 30 ELSE 31

DailyTotals(year, month, joined) ==
    [d \in 1..DaysInMonth(year, month) |->
        calculate_daily_sales(<<year, month, d>>, joined)]

\* C9: calculate_monthly_sales returns the sum of total_amount over exactly
\* the paid orders created in that month of that year (at or after the floor,
\* when given) and their number, which equal the sums of calculate_daily_sales
\* over every day of the month with the same floor.
C9_MonthlySales ==
    resp.op = "calculate_monthly_sales" =>
        LET r == resp.result
            counts == CountsIn(r.year, r.month, resp.joined)
            daily == DailyTotals(r.year, r.month, resp.joined)
        IN /\ r.orders = {o \in DOMAIN Order : counts[o]}
           /\ r.total_sales = SumOver(Indicator(TotalAmounts, counts), DOMAIN Order)
           /\ r.total_orders = Cardinality({o \in DOMAIN Order : counts[o]})
           /\ r.total_sales = SeqSum([d \in DOMAIN daily |-> daily[d].total_sales])
           /\ r.total_orders = SeqSum([d \in DOMAIN daily |-> daily[d].total_orders])

\* January 2024 with paid orders on two of its days.
C9_Witness ==
    /\ resp.op = "calculate_monthly_sales"
    /\ resp.result.year = 2024 /\ resp.result.month = 1
    /\ resp.result.total_orders = 2
    /\ resp.result.total_sales = 4500
    /\ \E a, b \in resp.result.orders :
          DateOf(Order[a].created_at) # DateOf(Order[b].created_at)

InRange(start_date, end_date, joined) ==
    [e \in DOMAIN Expense |->
        /\ DateLe(start_date, Expense[e].date)
        /\ DateLe(Expense[e].date, end_date)
        /\ AtOrAfter(joined, Expense[e].created_at)]

\* C10: calculate_expenses returns the sum of amount over exactly the expenses
\* dated from start to end, both inclusive (and created at or after the floor,
\* when given); an empty match yields 0.
C10_Expenses ==
    resp.op = "calculate_expenses" =>
        LET r == resp.result
            counts == InRange(r.start_date, r.end_date, resp.joined)
        IN /\ r.expenses = {e \in DOMAIN Expense : counts[e]}
           /\ r.total_expenses = SumOver(Indicator(ExpenseAmounts, counts), DOMAIN Expense)
           /\ r.expenses = {} => r.total_expenses = 0

\* Expenses dated on both ends of the range 2024-01-05 .. 2024-01-31.
C10_Witness ==
    /\ resp.op = "calculate_expenses"
    /\ resp.result.start_date = <<2024, 1, 5>>
    /\ resp.result.end_date = <<2024, 1, 31>>
    /\ resp.result.total_expenses = 8000
    /\ \E a, b \in resp.result.expenses :
          /\ Expense[a].date = <<2024, 1, 5>>
          /\ Expense[b].date = <<2024, 1, 31>>

(***************************************************************************)
(* calculate_profit (utils.py) and the profit specification: the function  *)
(* is applied to the sales and expenses totals a report hands to it.       *)
(***************************************************************************)
\* Mutant: a loss is reported as zero.
calculate_profit_Clamped(sales, expenses) ==
    IF sales - expenses < 0 THEN 0 ELSE sales - expenses

calculate_profit(sales, expenses) == sales - expenses

ProfitSales == {10000 * k : k \in 0..10}

ProfitExpenses == {12000 * k : k \in 0..10}

profit_report(sales, expenses) ==
    /\ resp' = [op |-> "calculate_profit", sales |-> sales, expenses |-> expenses,
                result |-> calculate_profit(sales, expenses)]
    /\ UNCHANGED <<Menu, Order, OrderItem, Expense, seq, session, now, inflight>>

NextProfit == \E sales \in ProfitSales, expenses \in ProfitExpenses :
                  profit_report(sales, expenses)

SpecProfit == Init /\ [][NextProfit]_vars

\* C11: calculate_profit(sales, expenses) is exactly sales - expenses, a
\* negative number when expenses exceed sales; it is never clamped at zero.
C11_ProfitIsDifference ==
    resp.op = "calculate_profit" =>
        /\ resp.result + resp.expenses = resp.sales
        /\ resp.expenses > resp.sales => resp.result < 0

\* Sales of 100.00 and expenses of 120.00: a profit of -20.00.
C11_Witness ==
    /\ resp.op = "calculate_profit"
    /\ resp.sales = 10000 /\ resp.expenses = 12000
    /\ resp.result = -2000

(***************************************************************************)
(* Top items (views.py: reports_graphs and the top-items exports).  The    *)
(* views accumulate, period by period, the quantity and the revenue of     *)
(* every OrderItem of the paid orders of the period, under the name of its *)
(* menu item, and sort the entries by quantity.                            *)
(***************************************************************************)
\* The last day of the month before the month of date.
EndOfPrevMonth(date) ==
    IF date[2] > 1 THEN <<date[1], date[2] - 1, DaysInMonth(date[1], date[2] - 1)>>
    ELSE <<date[1] - 1, 12, 31>>

\* date - timedelta(days=n), stepping back a month at a time.
RECURSIVE MinusDays(_, _)
MinusDays(date, n) ==
    IF n < date[3] THEN <<date[1], date[2], date[3] - n>>
    ELSE MinusDays(EndOfPrevMonth(date), n - date[3])

\* item.menu_item.name
ItemName(i) == Menu[OrderItem[i].menu_item].name

\* The OrderItems reached by order.order_items.all() for the orders of a queryset.
OrderItemsOf(orders) == {i \in DOMAIN OrderItem : OrderItem[i].order \in orders}

QuantityOf(name) ==
    [i \in DOMAIN OrderItem |-> IF ItemName(i) = name THEN OrderItem[i].quantity ELSE 0]

RevenueOf(name) ==
    [i \in DOMAIN OrderItem |->
        IF ItemName(i) = name THEN OrderItem[i].price * OrderItem[i].quantity ELSE 0]

\* The dict built by the loops: periods is the sequence of the querysets of
\* the periods, in the order the loop visits them; what a period holds is
\* added each time the period is visited.
Accumulate(periods) ==
    LET items == UNION {OrderItemsOf(periods[p]) : p \in DOMAIN periods}
    IN [name \in {ItemName(i) : i \in items} |->
          [quantity |-> SeqSum([p \in DOMAIN periods |->
                                  SumOver(QuantityOf(name), OrderItemsOf(periods[p]))]),
           revenue |-> SeqSum([p \in DOMAIN periods |->
                                  SumOver(RevenueOf(name), OrderItemsOf(periods[p]))])]]

\* for i in range(6, -1, -1): date = today - timedelta(days=i)
Last7Days(today) == [k \in 1..7 |-> MinusDays(today, 7 - k)]

\* for i in range(5, -1, -1): target_date = today - timedelta(days=30*i)
Last6Months(today) == [k \in 1..6 |-> MinusDays(today, 30 * (6 - k))]

Periods7Days(today, user_date_joined) ==
    [k \in 1..7 |-> FilterJoined(Order, DailyOrders(Last7Days(today)[k]), user_date_joined)]

Periods6Months(today, user_date_joined) ==
    [k \in 1..6 |-> FilterJoined(Order, MonthlyOrders(Last6Months(today)[k][1],
                                                      Last6Months(today)[k][2]),
                                 user_date_joined)]

\* The loops visit the periods in turn, the orders of a period latest first
\* (Order.Meta.ordering = ['-created_at'], orders of one instant in an order
\* the database chooses) and the items of an order by id.
VisitedBefore(p, i, q, j) ==
    \/ p < q
    \/ /\ p = q
       /\ OrderItem[i].order # OrderItem[j].order
       /\ Order[OrderItem[i].order].created_at # Order[OrderItem[j].order].created_at
       /\ DtLe(Order[OrderItem[j].order].created_at, Order[OrderItem[i].order].created_at)
    \/ /\ p = q
       /\ OrderItem[i].order = OrderItem[j].order
       /\ i < j

\* The key of name a is inserted into the dict before the key of name b.
InsertedBefore(periods, a, b) ==
    \E p \in DOMAIN periods : \E i \in OrderItemsOf(periods[p]) :
       /\ ItemName(i) = a
       /\ \A q \in DOMAIN periods : \A j \in OrderItemsOf(periods[q]) :
             ItemName(j) = b => VisitedBefore(p, i, q, j)

\* float(v['revenue']): the double nearest to the amount, which the amounts
\* of two decimal places of the model determine; it is written as the amount.
FloatRevenue(revenue) == revenue

\* Mutant: the list is the dict's entries in insertion order, not sorted.
SortedByQuantity_Unsorted(d, periods) ==
    {[k \in DOMAIN names |-> [name |-> names[k], quantity |-> d[names[k]].quantity,
                              revenue |-> FloatRevenue(d[names[k]].revenue)]] :
       names \in {f \in [1..Cardinality(DOMAIN d) -> DOMAIN d] :
                    /\ \A x, y \in DOMAIN f : x # y => f[x] # f[y]
                    /\ \A x, y \in DOMAIN f : x < y =>
                          ~InsertedBefore(periods, f[y], f[x])}}

\* sorted(..., key=lambda x: x['quantity'], reverse=True): a stable sort of
\* the dict's entries, which come in insertion order.
SortedByQuantity(d, periods) ==
    {[k \in DOMAIN names |-> [name |-> names[k], quantity |-> d[names[k]].quantity,
                              revenue |-> FloatRevenue(d[names[k]].revenue)]] :
       names \in {f \in [1..Cardinality(DOMAIN d) -> DOMAIN d] :
                    /\ \A x, y \in DOMAIN f : x # y => f[x] # f[y]
                    /\ \A x, y \in DOMAIN f : x < y =>
                          /\ d[f[x]].quantity >= d[f[y]].quantity
                          /\ d[f[x]].quantity = d[f[y]].quantity
                                => ~InsertedBefore(periods, f[y], f[x])}}

top_items_7days(user_date_joined) ==
    LET today == DateOf(now)
        periods == Periods7Days(today, user_date_joined)
        top_items == Accumulate(periods)
    IN /\ \E top_items_list \in SortedByQuantity(top_items, periods) :
             resp' = [op |-> "top_items_7days", joined |-> user_date_joined,
                      today |-> today, top_items |-> top_items,
                      top_items_list |-> top_items_list]
       /\ UNCHANGED <<Menu, Order, OrderItem, Expense, seq, session, now, inflight>>

top_items_6months(user_date_joined) ==
    LET today == DateOf(now)
        periods == Periods6Months(today, user_date_joined)
        top_items == Accumulate(periods)
    IN /\ \E top_items_list \in SortedByQuantity(top_items, periods) :
             resp' = [op |-> "top_items_6months", joined |-> user_date_joined,
                      today |-> today, top_items |-> top_items,
                      top_items_list |-> top_items_list]
       /\ UNCHANGED <<Menu, Order, OrderItem, Expense, seq, session, now, inflight>>

(***************************************************************************)
(* The item reports specification.  The initial states are stores the      *)
(* program reaches: the two seeded menu items, orders of one line each     *)
(* created at non-decreasing instants and then paid or left pending, and   *)
(* a current instant not before the last order.                            *)
(***************************************************************************)
ItemInstants == { <<2023, 12, 31, 0>>, <<2024, 1, 1, 0>>, <<2024, 1, 25, 0>>,
                  <<2024, 1, 31, 0>>, <<2024, 2, 1, 0>> }

ItemTodays == { <<2024, 1, 31, 0>>, <<2024, 2, 1, 0>>, <<2024, 3, 1, 0>> }

\* request.user.date_joined
ItemJoined == { <<2023, 1, 1, 0>>, <<2024, 1, 26, 0>> }

ItemOrderRows ==
    [menu_item : DOMAIN SeedItems, quantity : OrderQuantities,
     status : {"pending", "paid"}, created_at : ItemInstants]

InitItems ==
    /\ \E n \in 0..MaxOrders : \E t \in [1..n -> ItemOrderRows] :
          /\ NonDecreasing(t)
          /\ Order = [o \in 1..n |->
                        [order_number |-> <<"ORD", DateOf(t[o].created_at), ToString(o)>>,
                         total_amount |-> SeedItems[t[o].menu_item].price * t[o].quantity,
                         status |-> t[o].status, created_at |-> t[o].created_at]]
          /\ OrderItem = [o \in 1..n |->
                            [order |-> o, menu_item |-> t[o].menu_item,
                             quantity |-> t[o].quantity,
                             price |-> SeedItems[t[o].menu_item].price]]
    /\ Menu = [pk \in DOMAIN SeedItems |->
                 [name |-> SeedItems[pk].name, price |-> SeedItems[pk].price,
                  is_available |-> TRUE, created_at |-> <<2023, 12, 31, 0>>]]
    /\ Expense = <<>>
    /\ seq = [Menu |-> Len(SeedItems), Order |-> Cardinality(DOMAIN Order),
              OrderItem |-> Cardinality(DOMAIN OrderItem), Expense |-> 0]
    /\ session = [s \in Sessions |-> <<>>]
    /\ now \in {t \in ItemTodays : \A o \in DOMAIN Order : DtLe(Order[o].created_at, t)}
    /\ resp = [op |-> "none", status_code |-> 0]
    /\ inflight = <<>>

(***************************************************************************)
(* calculate_yearly_sales.  views.py imports it from utils.py and calls    *)
(* it, but utils.py does not define it: it is modelled from the            *)
(* specification (section 4.2, yearlySales) and from the fields its        *)
(* callers read (total_sales, total_orders, item_breakdown with name,      *)
(* total_quantity, total_revenue).  The order of the breakdown is not      *)
(* defined; the breakdown is modelled as the set of its entries.           *)
(***************************************************************************)
\* Mutant: the end of the range is exclusive.
RangeOrders_EndExclusive(start_date, end_date) ==
    {o \in DOMAIN Order : /\ Order[o].status = "paid"
                          /\ DateLe(start_date, DateOf(Order[o].created_at))
                          /\ DateLe(DateOf(Order[o].created_at), end_date)
                          /\ DateOf(Order[o].created_at) # end_date}

\* The paid orders created from start_date to end_date, both inclusive.
RangeOrders(start_date, end_date) ==
    {o \in DOMAIN Order : /\ Order[o].status = "paid"
                          /\ DateLe(start_date, DateOf(Order[o].created_at))
                          /\ DateLe(DateOf(Order[o].created_at), end_date)}

calculate_yearly_sales(start_date, end_date, user_date_joined) ==
    LET orders == FilterJoined(Order, RangeOrders(start_date, end_date), user_date_joined)
        items == OrderItemsOf(orders)
    IN [start_date |-> start_date,
        end_date |-> end_date,
        total_sales |-> SumOver(TotalAmounts, orders),
        total_orders |-> Cardinality(orders),
        item_breakdown |->
            {[name |-> name,
              total_quantity |-> SumOver(QuantityOf(name), items),
              total_revenue |-> SumOver(RevenueOf(name), items)] :
                name \in {ItemName(i) : i \in items}}]

\* max(user_date_joined.date(), date(today.year, 1, 1))
DefaultStart(today, user_date_joined) ==
    IF DateLe(DateOf(user_date_joined), <<today[1], 1, 1>>)
    THEN <<today[1], 1, 1>> ELSE DateOf(user_date_joined)

\* request.GET.get('start_date'), parsed; None when absent or not a date.
StartDates == { None, <<2023, 12, 31>>, <<2024, 1, 25>> }

yearly_sales_report(start_date_str, user_date_joined) ==
    LET today == DateOf(now)
        start_date == IF start_date_str # None THEN start_date_str
                      ELSE DefaultStart(today, user_date_joined)
        end_date == today
    IN /\ resp' = [op |-> "calculate_yearly_sales", joined |-> user_date_joined,
                   result |-> calculate_yearly_sales(start_date, end_date,
                                                     user_date_joined)]
       /\ UNCHANGED <<Menu, Order, OrderItem, Expense, seq, session, now, inflight>>

NextItems ==
    \/ \E j \in ItemJoined : top_items_7days(j)
    \/ \E j \in ItemJoined : top_items_6months(j)

SpecItems == InitItems /\ [][NextItems]_vars

\* The yearly sales specification: the same stores, the yearly report.
NextYearly == \E d \in StartDates, j \in ItemJoined : yearly_sales_report(d, j)

SpecYearly == InitItems /\ [][NextYearly]_vars

OneScan(orders) == Accumulate(<<orders>>)

PaidSince(joined) ==
    {o \in DOMAIN Order : Order[o].status = "paid" /\ DtLe(joined, Order[o].created_at)}

\* The paid orders at or after the floor created on one of the seven days
\* ending today.
Window7Days(today, joined) ==
    {o \in PaidSince(joined) :
        /\ DateLe(MinusDays(today, 6), DateOf(Order[o].created_at))
        /\ DateLe(DateOf(Order[o].created_at), today)}

\* The paid orders at or after the floor created in one of the months the
\* six-month loop asks for.
Window6Months(today, joined) ==
    {o \in PaidSince(joined) :
        \E k \in 1..6 : /\ Order[o].created_at[1] = Last6Months(today)[k][1]
                        /\ Order[o].created_at[2] = Last6Months(today)[k][2]}

\* C12: for the last-7-days and the last-6-months top items and for every
\* today, each name's quantity and revenue are the sums of quantity and of
\* quantity * price over the OrderItems of the paid orders (at or after the
\* floor) created in the window, each counted once: the accumulation period
\* by period equals one scan over the whole window.
C12_TopItemsOneScan ==
    /\ resp.op = "top_items_7days" =>
          resp.top_items = OneScan(Window7Days(resp.today, resp.joined))
    /\ resp.op = "top_items_6months" =>
          resp.top_items = OneScan(Window6Months(resp.today, resp.joined))

\* The seven-day half of C12 alone, which the code fulfils.
C12_SevenDaysOneScan ==
    resp.op = "top_items_7days" =>
        resp.top_items = OneScan(Window7Days(resp.today, resp.joined))

(***************************************************************************)
(* Properties of the cart.                                                 *)
(***************************************************************************)
\* C13: in every reachable state every cart line has quantity >= 1 and so
\* has every OrderItem; update_cart_item with a quantity <= 0 removes the
\* line instead of storing it.
C13_QuantitiesPositive ==
    [][/\ \A s \in Sessions : \A i \in DOMAIN session'[s] : session'[s][i].quantity >= 1
       /\ \A i \in DOMAIN OrderItem' : OrderItem'[i].quantity >= 1
       /\ resp'.op = "update_cart_item" =>
             \A s \in Sessions, q \in -1..0 : \A id \in CartKeys(session[s]) :
                update_cart_item(s, "POST", id, q)
                => /\ id \notin CartKeys(session'[s])
                   /\ Len(session'[s]) = Len(session[s]) - 1]_vars

\* update_cart_item has just removed the only line of a cart (a quantity
\* above zero would have kept it), and an order was created before.
C13_Witness ==
    /\ resp.op = "update_cart_item"
    /\ resp.success
    /\ resp.cart_count = 0
    /\ \E s \in Sessions : session[s] = <<>>
    /\ OrderItem # <<>>

(***************************************************************************)
(* Properties of the order number.                                         *)
(***************************************************************************)
\* C14: no two persisted orders share an order number; and when the number
\* generated for a new order collides with an existing one (u, the prefix
\* uuid4 yields) while the number generated next (u2) would be free, the
\* creation retries with it and succeeds.
C14_UniqueNumberWithRetry ==
    [][/\ \A a, b \in DOMAIN Order' :
             a # b => Order'[a].order_number # Order'[b].order_number
       /\ resp'.op = "create_order" =>
             \A s \in Sessions, u, u2 \in UuidPrefixes :
                (/\ create_order(s, "POST", u)
                 /\ session[s] # <<>>
                 /\ OrderNumberTaken(generate_order_number(u))
                 /\ ~OrderNumberTaken(generate_order_number(u2)))
                => /\ resp'.success
                   /\ resp'.order_number = generate_order_number(u2)]_vars

\* The uniqueness half of C14 alone, which the unique column enforces.
C14_UniqueNumbers ==
    \A a, b \in DOMAIN Order : a # b => Order[a].order_number # Order[b].order_number

(***************************************************************************)
(* The menu specification: one menu item whose name, price and             *)
(* availability are edited while carts are filled, orders created and      *)
(* paid.  Nothing is deleted.                                              *)
(***************************************************************************)
NextMenu ==
    \/ /\ seq.Menu = 0
       /\ menu_add("POST", SeedItems[1].name, SeedItems[1].price, TRUE)
    \/ \E m \in Methods, pk \in DOMAIN Menu, name \in Names, price \in Prices :
          menu_edit(m, pk, name, price, Menu[pk].is_available)
    \/ \E pk \in DOMAIN Menu : menu_toggle_availability("POST", pk)
    \/ \E s \in Sessions, id \in DOMAIN Menu :
          /\ CartQuantity(s, id) < MaxQty
          /\ add_to_cart(s, "POST", id)
    \/ \E s \in Sessions, q \in -1..MaxQty :
          \E id \in CartKeys(session[s]) : update_cart_item(s, "POST", id, q)
    \/ \E s \in Sessions :
          \E id \in CartKeys(session[s]) : remove_from_cart(s, "POST", id)
    \/ \E s \in Sessions : clear_cart(s, "POST")
    \/ \E s \in Sessions, u \in UuidPrefixes : create_order(s, "POST", u)
    \/ \E o \in DOMAIN Order : pay_now("POST", o)

SpecMenu == Init /\ [][NextMenu]_vars

NewItems == (DOMAIN OrderItem') \ (DOMAIN OrderItem)

\* C15 as stated: the unit price stored on each OrderItem is the price the
\* referenced menu item has at the moment the order is created.
C15_PriceAtOrderTime ==
    [][\A i \in NewItems : OrderItem'[i].price = Menu[OrderItem'[i].menu_item].price]_vars

\* C15, amended: the unit price stored on each OrderItem is the price held by
\* the cart line it is made from; a cart line takes the menu item's price
\* when add_to_cart first puts the item into the cart and keeps it as long as
\* the line is in the cart, whatever menu_edit does in between.
C15_PriceOfCartLine ==
    [][/\ \A i \in NewItems : \E s \in Sessions : \E k \in DOMAIN session[s] :
             /\ OrderItem'[i].menu_item = session[s][k].id
             /\ OrderItem'[i].quantity = session[s][k].quantity
             /\ OrderItem'[i].price = DecimalOf(session[s][k].price)
       /\ \A s \in Sessions : \A k \in DOMAIN session'[s] :
             LET line == session'[s][k]
             IN IF line.key \in CartKeys(session[s])
                THEN line.price = session[s][CartIndex(session[s], line.key)].price
                ELSE /\ resp'.op = "add_to_cart"
                     /\ line.price = DecimalStr(Menu[line.id].price)]_vars

\* An order has just been created from a line whose menu item was given
\* another price after the line was put into the cart.
C15_Witness ==
    /\ resp.op = "create_order"
    /\ resp.success
    /\ \E i \in DOMAIN OrderItem :
          /\ OrderItem[i].order = resp.order_id
          /\ OrderItem[i].price # Menu[OrderItem[i].menu_item].price

\* C17: once an order exists, no operation other than deleting data
\* (menu_edit, menu_toggle_availability, pay_now, the cart operations, the
\* creation of other orders) changes its total_amount or order_number, or the
\* price or quantity of any of its OrderItems.
C17_OrdersAreStable ==
    [][/\ \A o \in DOMAIN Order :
             /\ o \in DOMAIN Order'
             /\ Order'[o].total_amount = Order[o].total_amount
             /\ Order'[o].order_number = Order[o].order_number
       /\ \A i \in DOMAIN OrderItem :
             /\ i \in DOMAIN OrderItem'
             /\ OrderItem'[i].order = OrderItem[i].order
             /\ OrderItem'[i].price = OrderItem[i].price
             /\ OrderItem'[i].quantity = OrderItem[i].quantity]_vars

\* The menu item of a paid order has just been given another name and price.
C17_Witness ==
    /\ resp.op = "menu_edit"
    /\ resp.status_code = 302
    /\ \E i \in DOMAIN OrderItem :
          /\ Order[OrderItem[i].order].status = "paid"
          /\ Menu[OrderItem[i].menu_item].price # OrderItem[i].price
          /\ Menu[OrderItem[i].menu_item].name # SeedItems[1].name

(***************************************************************************)
(* Properties of the yearly sales.                                         *)
(***************************************************************************)
CountsBetween(start_date, end_date, joined) ==
    [o \in DOMAIN Order |->
        /\ Order[o].status = "paid"
        /\ DateLe(start_date, DateOf(Order[o].created_at))
        /\ DateLe(DateOf(Order[o].created_at), end_date)
        /\ AtOrAfter(joined, Order[o].created_at)]

\* C16: calculate_yearly_sales(start, end, floor) returns total_sales and
\* total_orders over the paid orders created from start to end inclusive (and
\* at or after the floor), and an item_breakdown with one entry per menu item
\* name, whose total_quantity and total_revenue are the sums of quantity and
\* of quantity * price over all the OrderItems of those orders.
C16_YearlySales ==
    resp.op = "calculate_yearly_sales" =>
        LET r == resp.result
            counts == CountsBetween(r.start_date, r.end_date, resp.joined)
            lines == {i \in DOMAIN OrderItem : counts[OrderItem[i].order]}
            named(n) == {i \in lines : Menu[OrderItem[i].menu_item].name = n}
        IN /\ r.total_sales = SumOver(Indicator(TotalAmounts, counts), DOMAIN Order)
           /\ r.total_orders = Cardinality({o \in DOMAIN Order : counts[o]})
           /\ \A i \in lines : \E e \in r.item_breakdown :
                 e.name = Menu[OrderItem[i].menu_item].name
           /\ \A e, f \in r.item_breakdown : e.name = f.name => e = f
           /\ \A e \in r.item_breakdown :
                 /\ named(e.name) # {}
                 /\ e.total_quantity =
                       SumOver([i \in DOMAIN OrderItem |-> OrderItem[i].quantity],
                               named(e.name))
                 /\ e.total_revenue = SumOver(Subtotals, named(e.name))

\* Two paid orders of different menu items, one created on the first and one
\* on the last day of the range 2024-01-25 .. 2024-01-31.
C16_Witness ==
    /\ resp.op = "calculate_yearly_sales"
    /\ resp.result.start_date = <<2024, 1, 25>>
    /\ resp.result.end_date = <<2024, 1, 31>>
    /\ resp.result.total_orders = 2
    /\ Cardinality(resp.result.item_breakdown) = 2
    /\ \E a, b \in DOMAIN Order :
          /\ DateOf(Order[a].created_at) = <<2024, 1, 25>>
          /\ DateOf(Order[b].created_at) = <<2024, 1, 31>>

(***************************************************************************)
(* The deletion specification: the two seeded menu items, orders of one    *)
(* unit of each item in the cart, payment, the admin's cancellation, and   *)
(* the deletion of menu items.                                             *)
(***************************************************************************)
NextDelete ==
    \/ /\ seq.Menu < Len(SeedItems)
       /\ menu_add("POST", SeedItems[seq.Menu + 1].name, SeedItems[seq.Menu + 1].price, TRUE)
    \/ \E s \in Sessions, id \in DOMAIN Menu :
          /\ id \notin CartKeys(session[s])
          /\ add_to_cart(s, "POST", id)
    \/ \E s \in Sessions, u \in UuidPrefixes : create_order(s, "POST", u)
    \/ \E o \in DOMAIN Order : pay_now("POST", o)
    \/ \E o \in DOMAIN Order :
          /\ Order[o].status = "pending"
          /\ OrderAdmin_change(o, "cancelled")
    \/ \E m \in Methods, pk \in DOMAIN Menu : menu_delete(m, pk)

SpecDelete == Init /\ [][NextDelete]_vars

\* C18: menu_delete of a menu item removes from the store the menu item and
\* every OrderItem that references it, in orders of any status, and leaves
\* every Order record, its status and its total_amount in place.
C18_DeleteCascades ==
    [][(resp'.op = "menu_delete" /\ resp'.status_code = 302) =>
          \A pk \in DOMAIN Menu :
             menu_delete("POST", pk)
             => /\ DOMAIN Menu' = (DOMAIN Menu) \ {pk}
                /\ \A k \in DOMAIN Menu' : Menu'[k] = Menu[k]
                /\ DOMAIN OrderItem' =
                      {i \in DOMAIN OrderItem : OrderItem[i].menu_item # pk}
                /\ \A i \in DOMAIN OrderItem' : OrderItem'[i] = OrderItem[i]
                /\ DOMAIN Order' = DOMAIN Order
                /\ \A o \in DOMAIN Order : Order'[o] = Order[o]]_vars

\* A menu item has just been deleted; a paid order that held only that item
\* has no item left and its total as before, and another order keeps its item.
C18_Witness ==
    /\ resp.op = "menu_delete"
    /\ resp.status_code = 302
    /\ \E o \in DOMAIN Order :
          /\ Order[o].status = "paid"
          /\ Order[o].total_amount = SeedItems[1].price
          /\ ItemsOf(o) = {}
    /\ OrderItem # <<>>

(***************************************************************************)
(* The failures specification: the billing operations are called with      *)
(* menu items that are unknown, unavailable, deleted or not in the cart,   *)
(* with an empty cart, and with the id of an order that does not exist.    *)
(***************************************************************************)
NextFailures ==
    \/ /\ seq.Menu = 0
       /\ menu_add("POST", SeedItems[1].name, SeedItems[1].price, TRUE)
    \/ \E pk \in DOMAIN Menu : menu_toggle_availability("POST", pk)
    \/ \E pk \in DOMAIN Menu : menu_delete("POST", pk)
    \/ \E s \in Sessions, id \in MenuPks :
          /\ CartQuantity(s, id) < MaxQty
          /\ add_to_cart(s, "POST", id)
    \/ \E s \in Sessions, id \in MenuPks, q \in 0..MaxQty :
          update_cart_item(s, "POST", id, q)
    \/ \E s \in Sessions, id \in MenuPks : remove_from_cart(s, "POST", id)
    \/ \E s \in Sessions, u \in UuidPrefixes : create_order(s, "POST", u)
    \/ \E o \in DOMAIN Order \cup {seq.Order + 1} : pay_now("POST", o)

SpecFailures == Init /\ [][NextFailures]_vars

BillingOps == {"add_to_cart", "update_cart_item", "remove_from_cart",
               "create_order", "pay_now"}

\* A JSON response with success and, when success is false, a message.
Structured(r) ==
    /\ r.status_code = 200
    /\ "success" \in DOMAIN r
    /\ r.success \in BOOLEAN
    /\ ~r.success => "message" \in DOMAIN r

\* C19: every validation or not-found failure of a billing operation
\* (add_to_cart, update_cart_item, remove_from_cart, create_order, pay_now) is
\* answered with a structured response with success = false and a message,
\* never with a protocol-level error.
C19_FailuresAreStructured ==
    resp.op \in BillingOps => Structured(resp)

\* C19 without pay_now: the cart operations and create_order, which catch
\* every exception themselves, answer every failure with a structured response.
C19_CartFailuresAreStructured ==
    resp.op \in BillingOps \ {"pay_now"} => Structured(resp)

(***************************************************************************)
(* The sessions specification: two client sessions, each with its own      *)
(* request.session, fill their carts with one unit of each of the two      *)
(* seeded menu items and create orders.                                    *)
(***************************************************************************)
TwoSessions == {"s1", "s2"}

InitSessions ==
    /\ Menu = <<>>
    /\ Order = <<>>
    /\ OrderItem = <<>>
    /\ Expense = <<>>
    /\ seq = [Menu |-> 0, Order |-> 0, OrderItem |-> 0, Expense |-> 0]
    /\ session = [s \in TwoSessions |-> <<>>]
    /\ now = <<2024, 1, 1, 0>>
    /\ resp = [op |-> "none", status_code |-> 0]
    /\ inflight = <<>>

NextSessions ==
    \/ /\ seq.Menu < Len(SeedItems)
       /\ menu_add("POST", SeedItems[seq.Menu + 1].name, SeedItems[seq.Menu + 1].price, TRUE)
    \/ \E s \in TwoSessions, id \in DOMAIN Menu :
          /\ id \notin CartKeys(session[s])
          /\ add_to_cart(s, "POST", id)
    \/ \E s \in TwoSessions, q \in 0..1 :
          \E id \in CartKeys(session[s]) : update_cart_item(s, "POST", id, q)
    \/ \E s \in TwoSessions :
          \E id \in CartKeys(session[s]) : remove_from_cart(s, "POST", id)
    \/ \E s \in TwoSessions : clear_cart(s, "POST")
    \/ \E s \in TwoSessions, u \in UuidPrefixes : create_order(s, "POST", u)

SpecSessions == InitSessions /\ [][NextSessions]_vars

\* A cart or order operation issued in session s.
IssuedIn(s) ==
    \/ \E id \in MenuPks : add_to_cart(s, "POST", id)
    \/ \E id \in MenuPks, q \in 0..1 : update_cart_item(s, "POST", id, q)
    \/ \E id \in MenuPks : remove_from_cart(s, "POST", id)
    \/ clear_cart(s, "POST")
    \/ \E u \in UuidPrefixes : create_order(s, "POST", u)

\* C20: carts are per session: add_to_cart, update_cart_item,
\* remove_from_cart, clear_cart and create_order issued in one session never
\* change the cart of any other session, and an order created in one session
\* contains only lines of that session's cart.
C20_CartsArePerSession ==
    [][\A s \in TwoSessions :
          IssuedIn(s)
          => /\ \A t \in TwoSessions \ {s} : session'[t] = session[t]
             /\ \A i \in NewItems : \E k \in DOMAIN session[s] :
                   /\ OrderItem'[i].menu_item = session[s][k].id
                   /\ OrderItem'[i].quantity = session[s][k].quantity
                   /\ OrderItem'[i].price = DecimalOf(session[s][k].price)]_vars

\* An order has just been created in one session while the cart of the other
\* session holds a line of another menu item, which the order does not hold.
C20_Witness ==
    /\ resp.op = "create_order"
    /\ resp.success
    /\ \E s, t \in TwoSessions :
          /\ session[s] = <<>>
          /\ session[t] # <<>>
          /\ \A i \in ItemsOf(resp.order_id) : \A k \in DOMAIN session[t] :
                OrderItem[i].menu_item # session[t][k].id

(***************************************************************************)
(* Cart views running at the same time in one session.  A view reads the   *)
(* session when it first touches request.session, works on the cart it     *)
(* has read, and the session middleware writes the session back with the   *)
(* response; nothing locks the session in between.  A request is in        *)
(* inflight from its read on: pc is "read" until the write, then "done".   *)
(***************************************************************************)
Requests == {"r1", "r2"}

\* cart = request.session.get('cart', {}) of the request that modifies it.
\* Mutant: the request modifies the cart as stored at the time of its write.
CartToModify_Stored(r) == session[inflight[r].s]

CartToModify(r) == inflight[r].cart

begin_request(r, s, view, arg) ==
    /\ r \notin DOMAIN inflight
    /\ inflight' = Insert(inflight, r, [view |-> view, s |-> s, arg |-> arg,
                                        cart |-> session[s], pc |-> "read"])
    /\ UNCHANGED <<Menu, Order, OrderItem, Expense, seq, session, now, resp>>

begin_add_to_cart(r, s, menu_item_id) ==
    /\ menu_item_id \in DOMAIN Menu
    /\ Menu[menu_item_id].is_available
    /\ begin_request(r, s, "add_to_cart", [menu_item |-> MenuItemRead(menu_item_id)])

begin_update_cart_item(r, s, menu_item_id, quantity) ==
    begin_request(r, s, "update_cart_item",
                  [menu_item_id |-> menu_item_id, quantity |-> quantity])

begin_remove_from_cart(r, s, menu_item_id) ==
    begin_request(r, s, "remove_from_cart", [menu_item_id |-> menu_item_id])

\* The end of a cart view: the modified cart is stored and the response sent,
\* or the failure is answered and nothing is stored.
finish_cart_request(r, newcart, found, response) ==
    LET q == inflight[r]
    IN /\ IF found
          THEN /\ session' = [session EXCEPT ![q.s] = newcart]
               /\ resp' = response
          ELSE /\ UNCHANGED session
               /\ resp' = JsonFail(q.view, "Item not found in cart")
       /\ inflight' = [inflight EXCEPT ![r].pc = "done"]
       /\ UNCHANGED <<Menu, Order, OrderItem, Expense, seq, now>>

finish_add_to_cart(r) ==
    /\ r \in DOMAIN inflight
    /\ inflight[r].pc = "read"
    /\ inflight[r].view = "add_to_cart"
    /\ LET newcart == CartAfterAdd(CartToModify(r), inflight[r].arg.menu_item)
       IN finish_cart_request(r, newcart, TRUE,
              [op |-> "add_to_cart", status_code |-> 200, success |-> TRUE,
               message |-> "added to cart", cart_count |-> cart_count(newcart)])

finish_update_cart_item(r) ==
    /\ r \in DOMAIN inflight
    /\ inflight[r].pc = "read"
    /\ inflight[r].view = "update_cart_item"
    /\ LET a == inflight[r].arg
           found == a.menu_item_id \in CartKeys(CartToModify(r))
           newcart == IF found
                      THEN CartAfterUpdate(CartToModify(r), a.menu_item_id, a.quantity)
                      ELSE CartToModify(r)
       IN finish_cart_request(r, newcart, found,
              [op |-> "update_cart_item", status_code |-> 200, success |-> TRUE,
               cart_count |-> cart_count(newcart),
               total |-> DecimalStr(cart_total(newcart))])

finish_remove_from_cart(r) ==
    /\ r \in DOMAIN inflight
    /\ inflight[r].pc = "read"
    /\ inflight[r].view = "remove_from_cart"
    /\ LET a == inflight[r].arg
           newcart == CartWithout(CartToModify(r), a.menu_item_id)
       IN finish_cart_request(r, newcart, a.menu_item_id \in CartKeys(CartToModify(r)),
              [op |-> "remove_from_cart", status_code |-> 200, success |-> TRUE,
               cart_count |-> cart_count(newcart),
               total |-> DecimalStr(cart_total(newcart))])

\* The stores the concurrent requests start from: the seeded menu and a
\* session cart that is empty or holds one Idly.
SeededMenu ==
    [pk \in DOMAIN SeedItems |->
        [name |-> SeedItems[pk].name, price |-> SeedItems[pk].price,
         is_available |-> TRUE, created_at |-> <<2023, 12, 31, 0>>]]

InitConcurrent ==
    /\ Menu = SeededMenu
    /\ Order = <<>>
    /\ OrderItem = <<>>
    /\ Expense = <<>>
    /\ seq = [Menu |-> Len(SeedItems), Order |-> 0, OrderItem |-> 0, Expense |-> 0]
    /\ \E cart \in {<<>>, CartAfterAdd(<<>>, [id |-> 1, name |-> SeedItems[1].name,
                                               price |-> SeedItems[1].price])} :
          session = [s \in Sessions |-> cart]
    /\ now = <<2024, 1, 1, 0>>
    /\ resp = [op |-> "none", status_code |-> 0]
    /\ inflight = <<>>

NextConcurrent ==
    \/ \E r \in Requests, s \in Sessions, id \in MenuPks : begin_add_to_cart(r, s, id)
    \/ \E r \in Requests, s \in Sessions, id \in MenuPks, q \in 0..MaxQty :
          begin_update_cart_item(r, s, id, q)
    \/ \E r \in Requests, s \in Sessions, id \in MenuPks :
          begin_remove_from_cart(r, s, id)
    \/ \E r \in Requests : finish_add_to_cart(r)
    \/ \E r \in Requests : finish_update_cart_item(r)
    \/ \E r \in Requests : finish_remove_from_cart(r)

SpecConcurrent == InitConcurrent /\ [][NextConcurrent]_vars

\* The quantity a cart holds of a menu item, 0 when it has no line of it.
QtyIn(cart, id) ==
    IF id \in CartKeys(cart) THEN cart[CartIndex(cart, id)].quantity ELSE 0

\* The quantities request q asks for, given the cart it has read.
AskedQty(q, id) ==
    IF q.view = "add_to_cart"
    THEN QtyIn(q.cart, id) + (IF id = q.arg.menu_item.id THEN 1 ELSE 0)
    ELSE IF id # q.arg.menu_item_id THEN QtyIn(q.cart, id)
    ELSE IF q.view = "update_cart_item" /\ q.arg.quantity > 0 THEN q.arg.quantity
    ELSE 0

Writes(r) ==
    /\ r \in DOMAIN inflight
    /\ inflight[r].pc = "read"
    /\ inflight'[r].pc = "done"
    /\ resp'.success

\* C21: when cart mutations of one session interleave, the stored cart is at
\* every write exactly the cart of the request that writes (the cart it read,
\* with its own change), whatever was stored in between: the change of a
\* request that wrote earlier can be lost, and the cart changes in no other way.
C21_LastWriteWins ==
    [][/\ \A r \in Requests : Writes(r) =>
             \A id \in MenuPks :
                QtyIn(session'[inflight[r].s], id) = AskedQty(inflight[r], id)
       /\ session' # session => \E r \in Requests : Writes(r)]_vars

\* Two add_to_cart of Idly have both read the empty cart and both written:
\* the cart holds one Idly, not two.
C21_Witness ==
    /\ DOMAIN inflight = Requests
    /\ \A r \in Requests :
          /\ inflight[r].pc = "done"
          /\ inflight[r].view = "add_to_cart"
          /\ inflight[r].arg.menu_item.id = 1
          /\ inflight[r].cart = <<>>
    /\ \A s \in Sessions : QtyIn(session[s], 1) = 1

(***************************************************************************)
(* The aggregation specification: the four aggregation functions called    *)
(* one after another, in any order, on a store holding both orders and     *)
(* expenses.                                                               *)
(***************************************************************************)
InitAggregate ==
    /\ \E n \in 0..MaxOrders :
       \E t \in [1..n -> [order_number : {None}, total_amount : {SeedItems[1].price},
                          status : {"paid", "pending"},
                          created_at : { <<2024, 1, 1, 0>>, <<2024, 1, 31, 0>> }]] :
          /\ NonDecreasing(t)
          /\ Order = [o \in 1..n |->
                        [t[o] EXCEPT !.order_number =
                            <<"ORD", DateOf(t[o].created_at), ToString(o)>>]]
    /\ OrderItem = [o \in DOMAIN Order |->
                      [order |-> o, menu_item |-> 1, quantity |-> 1,
                       price |-> SeedItems[1].price]]
    /\ \E n \in 0..MaxExpenses :
          Expense = [e \in 1..n |-> [date |-> <<2024, 1, 5>>, amount |-> 12000,
                                     created_at |-> <<2024, 1, 1, 1>>]]
    /\ Menu = (1 :> [name |-> SeedItems[1].name, price |-> SeedItems[1].price,
                     is_available |-> TRUE, created_at |-> <<2024, 1, 1, 0>>])
    /\ seq = [Menu |-> 1, Order |-> Cardinality(DOMAIN Order),
              OrderItem |-> Cardinality(DOMAIN OrderItem),
              Expense |-> Cardinality(DOMAIN Expense)]
    /\ session = [s \in Sessions |-> <<>>]
    /\ now = <<2024, 2, 1, 0>>
    /\ resp = [op |-> "none", status_code |-> 0]
    /\ inflight = <<>>

AggDates == { <<2024, 1, 1>>, <<2024, 1, 31>> }

AggMonths == { <<2024, 1>>, <<2024, 2>> }

AggRanges == { << <<2024, 1, 1>>, <<2024, 1, 31>> >>, << <<2024, 1, 6>>, <<2024, 2, 1>> >> }

AggTotals == { <<0, 12000>>, <<10000, 0>>, <<10000, 12000>> }

NextAggregate ==
    \/ \E d \in AggDates, j \in ReportJoined : daily_sales_report(d, j)
    \/ \E ym \in AggMonths, j \in ReportJoined : monthly_sales_report(ym[1], ym[2], j)
    \/ \E range \in AggRanges, j \in ReportJoined : expenses_report(range[1], range[2], j)
    \/ \E t \in AggTotals : profit_report(t[1], t[2])

SpecAggregate == InitAggregate /\ [][NextAggregate]_vars

\* C22: the aggregation functions are read-only and deterministic: a call
\* changes no Menu, Order, OrderItem, Expense or cart state, its result is
\* the function of its arguments and the store, and the value of every
\* function on every argument is the same before and after the call, so a
\* call repeated after other aggregation calls returns the same totals and
\* counts.
C22_ReadOnlyDeterministic ==
    [][/\ UNCHANGED <<Menu, Order, OrderItem, Expense, seq, session>>
       /\ \A d \in AggDates, j \in ReportJoined :
             calculate_daily_sales(d, j)' = calculate_daily_sales(d, j)
       /\ \A ym \in AggMonths, j \in ReportJoined :
             calculate_monthly_sales(ym[1], ym[2], j)'
                = calculate_monthly_sales(ym[1], ym[2], j)
       /\ \A range \in AggRanges, j \in ReportJoined :
             calculate_expenses(range[1], range[2], j)'
                = calculate_expenses(range[1], range[2], j)
       /\ \A t \in AggTotals : calculate_profit(t[1], t[2])' = calculate_profit(t[1], t[2])
       /\ resp'.op = "calculate_daily_sales" =>
             resp'.result = calculate_daily_sales(resp'.result.date, resp'.joined)
       /\ resp'.op = "calculate_monthly_sales" =>
             resp'.result = calculate_monthly_sales(resp'.result.year,
                                                    resp'.result.month, resp'.joined)
       /\ resp'.op = "calculate_expenses" =>
             resp'.result = calculate_expenses(resp'.result.start_date,
                                               resp'.result.end_date, resp'.joined)
       /\ resp'.op = "calculate_profit" =>
             resp'.result = calculate_profit(resp'.sales, resp'.expenses)]_vars

\* The daily sales of 2024-01-01 have been returned on a store that holds a
\* paid order of that day and an expense.
C22_Witness ==
    /\ resp.op = "calculate_daily_sales"
    /\ resp.result.date = <<2024, 1, 1>>
    /\ resp.result.total_orders >= 1
    /\ Expense # <<>>

(***************************************************************************)
(* Properties of the top-items lists.                                      *)
(***************************************************************************)
\* The names of the menu items of the OrderItems of a set of orders.
NamesOf(orders) == {ItemName(i) : i \in {j \in DOMAIN OrderItem : OrderItem[j].order \in orders}}

\* The list is in descending order of quantity and lists each of the names
\* once, and nothing else.
OrderedOncePerName(list, names) ==
    /\ \A k \in DOMAIN list : k + 1 \in DOMAIN list => list[k].quantity >= list[k + 1].quantity
    /\ \A n \in names : Cardinality({k \in DOMAIN list : list[k].name = n}) = 1
    /\ \A k \in DOMAIN list : list[k].name \in names

\* C23: the 7-day and the 6-month top-items lists are in descending order of
\* quantity (each entry's quantity is >= the next one's), and every item
\* name with an OrderItem of a paid order of the scanned days or months (at
\* or after the floor) appears exactly once.
C23_TopItemsSorted ==
    /\ resp.op = "top_items_7days" =>
          OrderedOncePerName(resp.top_items_list,
                             NamesOf(Window7Days(resp.today, resp.joined)))
    /\ resp.op = "top_items_6months" =>
          OrderedOncePerName(resp.top_items_list,
                             NamesOf(Window6Months(resp.today, resp.joined)))

\* A list of two names where the name sold later has the larger quantity and
\* comes first.
C23_Witness ==
    /\ resp.op \in {"top_items_7days", "top_items_6months"}
    /\ Len(resp.top_items_list) = 2
    /\ resp.top_items_list[1].quantity > resp.top_items_list[2].quantity
    /\ InsertedBefore(IF resp.op = "top_items_7days"
                         THEN Periods7Days(resp.today, resp.joined)
                         ELSE Periods6Months(resp.today, resp.joined),
                      resp.top_items_list[2].name, resp.top_items_list[1].name)

(***************************************************************************)
(* Properties of the cart responses.                                       *)
(***************************************************************************)
CartMutations == {"add_to_cart", "update_cart_item", "remove_from_cart"}

\* C24: every successful add_to_cart, update_cart_item and remove_from_cart
\* answers with success, a message, a cart count and a total; the count is
\* the sum of the quantities and the total the sum of price * quantity over
\* the cart as stored after the operation.
C24_CartResponse ==
    (resp.op \in CartMutations /\ resp.success) =>
        /\ {"success", "message", "cart_count", "total"} \subseteq DOMAIN resp
        /\ \E s \in Sessions :
              /\ resp.cart_count = cart_count(session[s])
              /\ resp.total = DecimalStr(cart_total(session[s]))

\* The part of C24 the code fulfils: the count and the total that a
\* successful response carries are the sums over the stored cart.
C24_CountAndTotalAreSums ==
    (resp.op \in CartMutations /\ resp.success) =>
        \E s \in Sessions :
           /\ resp.cart_count = cart_count(session[s])
           /\ "total" \in DOMAIN resp => resp.total = DecimalStr(cart_total(session[s]))

(***************************************************************************)
(* The checkout specification: two create_order requests of one session    *)
(* on one non-empty cart.  A request reads the session cart, creates the   *)
(* Order and its OrderItems from the cart it has read and writes the empty *)
(* cart back with its response; the view takes no lock and opens no        *)
(* transaction, so the other request may read the cart in between.         *)
(***************************************************************************)
begin_create_order(r, s) == begin_request(r, s, "create_order", None)

finish_create_order(r, uuid) ==
    /\ r \in DOMAIN inflight
    /\ inflight[r].pc = "read"
    /\ inflight[r].view = "create_order"
    /\ LET cart == inflight[r].cart
           total_amount == cart_total(cart)
           order_pk == seq.Order + 1
           items == NewOrderItems(cart, order_pk)
       IN IF CartIsEmpty(cart)
          THEN /\ UNCHANGED <<Order, OrderItem, seq, session>>
               /\ resp' = JsonFail("create_order", "Cart is empty")
          ELSE IF OrderNumberTaken(generate_order_number(uuid))
          THEN /\ UNCHANGED <<Order, OrderItem, seq, session>>
               /\ resp' = JsonFail("create_order", "UNIQUE constraint failed")
          ELSE /\ Order' = Insert(Order, order_pk, NewOrder(total_amount, uuid))
               /\ OrderItem' = OrderItem @@ items
               /\ seq' = [seq EXCEPT !.Order = order_pk,
                                     !.OrderItem = @ + Cardinality(DOMAIN items)]
               /\ IF FirstMissing(cart) <= Len(cart)
                  THEN /\ UNCHANGED session
                       /\ resp' = JsonFail("create_order",
                                           "Menu matching query does not exist.")
                  ELSE /\ session' = [session EXCEPT ![inflight[r].s] = CartAfterOrder(cart)]
                       /\ resp' = [op |-> "create_order", status_code |-> 200,
                                   success |-> TRUE, order_id |-> order_pk,
                                   order_number |-> generate_order_number(uuid),
                                   message |-> "Order created successfully!"]
    /\ inflight' = [inflight EXCEPT ![r].pc = "done"]
    /\ UNCHANGED <<Menu, Expense, now>>

\* The cart holds item 1, or item 1 and then item 2, in quantities up to
\* MaxQty, as add_to_cart and update_cart_item leave it.
InitCheckout ==
    /\ Menu = SeededMenu
    /\ Order = <<>>
    /\ OrderItem = <<>>
    /\ Expense = <<>>
    /\ seq = [Menu |-> Len(SeedItems), Order |-> 0, OrderItem |-> 0, Expense |-> 0]
    /\ \E n \in 1..2 : \E q \in [1..n -> 1..MaxQty] :
          session = [s \in Sessions |->
                       [i \in 1..n |-> [key |-> i, id |-> i, name |-> SeedItems[i].name,
                                        price |-> DecimalStr(SeedItems[i].price),
                                        quantity |-> q[i]]]]
    /\ now = <<2024, 1, 1, 0>>
    /\ resp = [op |-> "none", status_code |-> 0]
    /\ inflight = <<>>

NextCheckout ==
    \/ \E r \in Requests, s \in Sessions : begin_create_order(r, s)
    \/ \E r \in Requests, uuid \in UuidPrefixes : finish_create_order(r, uuid)

SpecCheckout == InitCheckout /\ [][NextCheckout]_vars

\* C25: one cart becomes at most one Order: in every interleaving of two
\* create_order requests of one session on one non-empty cart exactly one
\* creates an Order, and the request that ends after the Order was created
\* reports an empty cart and creates nothing.
C25_OneCartOneOrder ==
    [][/\ Cardinality(DOMAIN Order') <= 1
       /\ (\A r \in Requests : r \in DOMAIN inflight' /\ inflight'[r].pc = "done")
             => Cardinality(DOMAIN Order') = 1
       /\ (inflight' # inflight /\ resp'.op = "create_order" /\ Order # <<>>)
             => /\ Order' = Order
                /\ OrderItem' = OrderItem
                /\ resp' = JsonFail("create_order", "Cart is empty")]_vars

\* What the code does fulfil: two create_order requests that do not overlap
\* (the second reads the cart after the first has written it) create one
\* Order, and the second reports the empty cart.
C25_SerialCheckout ==
    [][(inflight' # inflight /\ resp'.op = "create_order" /\ Order # <<>>
        /\ \E r \in Requests : /\ r \in DOMAIN inflight
                               /\ inflight[r].pc = "read"
                               /\ inflight[r].cart = <<>>)
          => /\ Order' = Order
             /\ resp' = JsonFail("create_order", "Cart is empty")]_vars

(***************************************************************************)
(* The months specification: the month loops of reports_graphs and of the  *)
(* monthly exports, on every day of 2024 as today.  The store holds the    *)
(* seeded menu and at most one paid order, of December 2023.               *)
(***************************************************************************)
\* for i in range(11, -1, -1): target_date = today - timedelta(days=30*i)
Last12Months(today) == [k \in 1..12 |-> MinusDays(today, 30 * (12 - k))]

\* monthly_breakdown of reports_graphs and export_monthly_breakdown_pdf.
monthly_breakdown(user_date_joined) ==
    LET today == DateOf(now)
    IN /\ resp' = [op |-> "monthly_breakdown", joined |-> user_date_joined,
                   today |-> today,
                   monthly_breakdown |->
                      [k \in 1..12 |->
                         LET year == Last12Months(today)[k][1]
                             month == Last12Months(today)[k][2]
                             monthly_sales ==
                                calculate_monthly_sales(year, month, user_date_joined)
                         IN [year |-> year, month |-> month,
                             sales |-> monthly_sales.total_sales,
                             orders |-> monthly_sales.total_orders]]]
       /\ UNCHANGED <<Menu, Order, OrderItem, Expense, seq, session, now, inflight>>

InitMonths ==
    /\ Menu = SeededMenu
    /\ \E n \in 0..1 :
          /\ Order = [o \in 1..n |->
                        [order_number |-> <<"ORD", <<2023, 12, 15>>, ToString(o)>>,
                         total_amount |-> SeedItems[1].price, status |-> "paid",
                         created_at |-> <<2023, 12, 15, 0>>]]
          /\ OrderItem = [o \in 1..n |-> [order |-> o, menu_item |-> 1, quantity |-> 1,
                                          price |-> SeedItems[1].price]]
    /\ Expense = <<>>
    /\ seq = [Menu |-> Len(SeedItems), Order |-> Cardinality(DOMAIN Order),
              OrderItem |-> Cardinality(DOMAIN OrderItem), Expense |-> 0]
    /\ session = [s \in Sessions |-> <<>>]
    /\ \E m \in 1..12 : \E d \in 1..DaysInMonth(2024, m) : now = <<2024, m, d, 0>>
    /\ resp = [op |-> "none", status_code |-> 0]
    /\ inflight = <<>>

NextMonths ==
    \/ monthly_breakdown(<<2023, 1, 1, 0>>)
    \/ top_items_6months(<<2023, 1, 1, 0>>)

SpecMonths == InitMonths /\ [][NextMonths]_vars

\* The calendar month n months before the month of date.
MonthsBefore(date, n) ==
    LET index == date[1] * 12 + (date[2] - 1) - n
    IN <<index \div 12, (index % 12) + 1>>

\* C26: for every today the last-12-months breakdown visits the 12
\* consecutive calendar months ending with the current month, and the
\* 6-month top-items computation the 6 consecutive calendar months ending
\* with the current month: no month twice, none skipped.
C26_ConsecutiveMonths ==
    /\ resp.op = "monthly_breakdown" =>
          \A k \in 1..12 :
             <<resp.monthly_breakdown[k].year, resp.monthly_breakdown[k].month>>
                = MonthsBefore(resp.today, 12 - k)
    /\ resp.op = "top_items_6months" =>
          \A k \in 1..6 :
             <<Last6Months(resp.today)[k][1], Last6Months(resp.today)[k][2]>>
                = MonthsBefore(resp.today, 6 - k)

\* What the code does fulfil: the loops end with the current month, and the
\* months they visit never go backwards.
C26_EndsWithCurrentMonth ==
    /\ resp.op = "monthly_breakdown" =>
          /\ <<resp.monthly_breakdown[12].year, resp.monthly_breakdown[12].month>>
                = MonthsBefore(resp.today, 0)
          /\ \A k \in 1..11 :
                resp.monthly_breakdown[k].year * 12 + resp.monthly_breakdown[k].month
                   <= resp.monthly_breakdown[k + 1].year * 12
                         + resp.monthly_breakdown[k + 1].month
    /\ resp.op = "top_items_6months" =>
          <<Last6Months(resp.today)[6][1], Last6Months(resp.today)[6][2]>>
             = MonthsBefore(resp.today, 0)

(***************************************************************************)
(* The profit export specification: export_profit_pdf and                  *)
(* export_profit_excel for a period, on the stores of the aggregation      *)
(* specification (orders of January 2024, an expense of 2024-01-05, the    *)
(* current instant in February 2024).  Both views compute the same three   *)
(* values and differ in the document they write them into.                 *)
(***************************************************************************)
export_profit(format, start_date, end_date, date_joined) ==
    LET monthly_sales == calculate_monthly_sales(now[1], now[2], date_joined)
        expenses_data == calculate_expenses(start_date, end_date, date_joined)
        profit == calculate_profit(monthly_sales.total_sales, expenses_data.total_expenses)
    IN /\ resp' = [op |-> "export_profit", format |-> format, joined |-> date_joined,
                   start_date |-> start_date, end_date |-> end_date,
                   total_sales |-> monthly_sales.total_sales,
                   total_expenses |-> expenses_data.total_expenses,
                   profit |-> profit]
       /\ UNCHANGED <<Menu, Order, OrderItem, Expense, seq, session, now, inflight>>

NextExport ==
    \E format \in {"pdf", "excel"}, range \in AggRanges, j \in ReportJoined :
       export_profit(format, range[1], range[2], j)

SpecExport == InitAggregate /\ [][NextExport]_vars

\* The total of the paid orders (at or after the floor) created from
\* start_date to end_date.
PeriodSales(start_date, end_date, joined) ==
    SumOver(TotalAmounts, FilterJoined(Order, RangeOrders(start_date, end_date), joined))

\* C27: the profit export for start_date..end_date, PDF and Excel, reports
\* profit = sales - expenses with the sales and the expenses both aggregated
\* over the period start_date..end_date.
C27_ProfitOfPeriod ==
    resp.op = "export_profit" =>
        /\ resp.total_sales = PeriodSales(resp.start_date, resp.end_date, resp.joined)
        /\ resp.total_expenses
              = calculate_expenses(resp.start_date, resp.end_date, resp.joined).total_expenses
        /\ resp.profit = resp.total_sales - resp.total_expenses

\* What the code does fulfil: the profit is the difference of the reported
\* sales and expenses, the expenses are those of the period, and the sales
\* are those of the calendar month of the export.
C27_ProfitOfCurrentMonthSales ==
    resp.op = "export_profit" =>
        /\ resp.total_sales
              = calculate_monthly_sales(now[1], now[2], resp.joined).total_sales
        /\ resp.total_expenses
              = calculate_expenses(resp.start_date, resp.end_date, resp.joined).total_expenses
        /\ resp.profit = resp.total_sales - resp.total_expenses

(***************************************************************************)
(* Properties of availability.                                             *)
(***************************************************************************)
\* C28: every OrderItem persisted by create_order references a MenuItem
\* that is available at the moment the order is created, in every
\* interleaving of add_to_cart, menu_toggle_availability, menu_edit and
\* create_order.
C28_OrderedItemsAvailable ==
    [][\A i \in NewItems : /\ OrderItem'[i].menu_item \in DOMAIN Menu
                           /\ Menu[OrderItem'[i].menu_item].is_available]_vars

\* What the code does fulfil: add_to_cart puts only available items into a
\* cart, and every OrderItem persisted by create_order references a MenuItem
\* that exists at the moment the order is created.
C28_AddedItemsAvailable ==
    [][/\ \A i \in NewItems : OrderItem'[i].menu_item \in DOMAIN Menu
       /\ \A s \in Sessions : \A k \in DOMAIN session'[s] :
             session'[s][k].key \notin CartKeys(session[s])
                => Menu[session'[s][k].id].is_available]_vars

(***************************************************************************)
(* The cart requests specification: the cart views from the request body   *)
(* on.  A body is malformed or a JSON object; a member of the object is an *)
(* integer, a text that is not a number, null, or absent (data.get then    *)
(* gives None, or the default).  Everything from json.loads to the         *)
(* response runs inside the view's try block, whose handler answers        *)
(* {success: false, message: str(e)}.                                      *)
(***************************************************************************)
JsonValue(type, value) == [type |-> type, value |-> value]

\* The bodies sent: one that is not JSON, and the objects whose menu_item_id
\* is 1, 3 (the id of no menu item), "abc" or null and whose quantity is 0, 2,
\* "abc" or absent.
Bodies ==
    {[syntax |-> "malformed", menu_item_id |-> JsonValue("absent", 0),
      quantity |-> JsonValue("absent", 0)]}
    \cup [syntax : {"object"},
          menu_item_id : {JsonValue("int", 1), JsonValue("int", 3),
                          JsonValue("text", 0), JsonValue("null", 0)},
          quantity : {JsonValue("int", 0), JsonValue("int", 2),
                      JsonValue("text", 0), JsonValue("absent", 0)}]

\* int(data.get('quantity', 1)): the integer, 1 when the member is absent;
\* ValueError for a text that is not a number, TypeError for null.
int(v) ==
    IF v.type = "int" THEN [raises |-> FALSE, value |-> v.value]
    ELSE IF v.type = "absent" THEN [raises |-> FALSE, value |-> 1]
    ELSE [raises |-> TRUE, value |-> 0]

\* str(data.get('menu_item_id')) as a cart key: the key of item n for the
\* integer n; "abc" and "None" are the keys of no cart line, as is 0.
item_key(v) == IF v.type = "int" THEN v.value ELSE 0

add_to_cart_request(s, method, body) ==
    IF method = "POST" /\ body.syntax = "malformed"
    THEN /\ resp' = JsonFail("add_to_cart", "Expecting value")
         /\ UNCHANGED <<Menu, Order, OrderItem, Expense, seq, session, now, inflight>>
    ELSE IF method = "POST" /\ body.menu_item_id.type = "text"
    THEN /\ resp' = JsonFail("add_to_cart", "Field 'id' expected a number")
         /\ UNCHANGED <<Menu, Order, OrderItem, Expense, seq, session, now, inflight>>
    ELSE add_to_cart(s, method, item_key(body.menu_item_id))

\* Mutant: the cart line is taken out of the stored cart before the quantity
\* is converted.
update_cart_item_request_WritesFirst(s, method, body) ==
    IF method = "POST" /\ body.syntax = "malformed"
    THEN /\ resp' = JsonFail("update_cart_item", "Expecting value")
         /\ UNCHANGED <<Menu, Order, OrderItem, Expense, seq, session, now, inflight>>
    ELSE IF method = "POST" /\ int(body.quantity).raises
    THEN /\ resp' = JsonFail("update_cart_item", "invalid literal for int()")
         /\ session' = [session EXCEPT ![s] = CartWithout(@, item_key(body.menu_item_id))]
         /\ UNCHANGED <<Menu, Order, OrderItem, Expense, seq, now, inflight>>
    ELSE update_cart_item(s, method, item_key(body.menu_item_id), int(body.quantity).value)

update_cart_item_request(s, method, body) ==
    IF method = "POST" /\ body.syntax = "malformed"
    THEN /\ resp' = JsonFail("update_cart_item", "Expecting value")
         /\ UNCHANGED <<Menu, Order, OrderItem, Expense, seq, session, now, inflight>>
    ELSE IF method = "POST" /\ int(body.quantity).raises
    THEN /\ resp' = JsonFail("update_cart_item", "invalid literal for int()")
         /\ UNCHANGED <<Menu, Order, OrderItem, Expense, seq, session, now, inflight>>
    ELSE update_cart_item(s, method, item_key(body.menu_item_id), int(body.quantity).value)

remove_from_cart_request(s, method, body) ==
    IF method = "POST" /\ body.syntax = "malformed"
    THEN /\ resp' = JsonFail("remove_from_cart", "Expecting value")
         /\ UNCHANGED <<Menu, Order, OrderItem, Expense, seq, session, now, inflight>>
    ELSE remove_from_cart(s, method, item_key(body.menu_item_id))

NextCartRequests ==
    \/ \E pk \in DOMAIN Menu : menu_toggle_availability("POST", pk)
    \/ \E s \in Sessions, m \in Methods, body \in Bodies :
          /\ CartQuantity(s, item_key(body.menu_item_id)) < MaxQty
          /\ add_to_cart_request(s, m, body)
    \/ \E s \in Sessions, m \in Methods, body \in Bodies :
          /\ int(body.quantity).value <= MaxQty
          /\ update_cart_item_request(s, m, body)
    \/ \E s \in Sessions, m \in Methods, body \in Bodies :
          remove_from_cart_request(s, m, body)

SpecCartRequests == InitConcurrent /\ [][NextCartRequests]_vars

\* C29: a cart operation that returns success = false (add_to_cart for an
\* unknown or unavailable item or with a malformed body, update_cart_item or
\* remove_from_cart for an item not in the cart or with a quantity that is
\* not an integer) leaves the stored carts and the persisted store exactly
\* as they were before the call.
C29_FailedCartOpChangesNothing ==
    [][(resp'.op \in CartMutations /\ ~resp'.success)
          => UNCHANGED <<session, Menu, Order, OrderItem, Expense, seq>>]_vars

\* update_cart_item has failed on a quantity that is not an integer, for an
\* item that is in the cart, and the line is still there.
C29_Witness ==
    /\ resp = JsonFail("update_cart_item", "invalid literal for int()")
    /\ \E s \in Sessions : session[s] # <<>>

(***************************************************************************)
(* The methods specification: one menu item, and every state-changing view *)
(* requested with POST and with GET.                                       *)
(***************************************************************************)
NextMethods ==
    \/ /\ seq.Menu = 0
       /\ menu_add("POST", SeedItems[1].name, SeedItems[1].price, TRUE)
    \/ \E m \in Methods, pk \in DOMAIN Menu : menu_delete(m, pk)
    \/ \E m \in Methods, pk \in DOMAIN Menu : menu_toggle_availability(m, pk)
    \/ \E s \in Sessions, m \in Methods, id \in DOMAIN Menu :
          /\ CartQuantity(s, id) < MaxQty
          /\ add_to_cart(s, m, id)
    \/ \E s \in Sessions, m \in Methods, q \in 0..MaxQty :
          \E id \in CartKeys(session[s]) : update_cart_item(s, m, id, q)
    \/ \E s \in Sessions, m \in Methods :
          \E id \in CartKeys(session[s]) : remove_from_cart(s, m, id)
    \/ \E s \in Sessions, m \in Methods : clear_cart(s, m)
    \/ \E s \in Sessions, m \in Methods, u \in UuidPrefixes : create_order(s, m, u)
    \/ \E m \in Methods, o \in DOMAIN Order : pay_now(m, o)

SpecMethods == Init /\ [][NextMethods]_vars

\* A GET request of one of the views that test request.method.
CheckedGet ==
    \/ \E s \in Sessions, id \in MenuPks : add_to_cart(s, "GET", id)
    \/ \E s \in Sessions, id \in MenuPks, q \in 0..MaxQty : update_cart_item(s, "GET", id, q)
    \/ \E s \in Sessions, id \in MenuPks : remove_from_cart(s, "GET", id)
    \/ \E s \in Sessions, u \in UuidPrefixes : create_order(s, "GET", u)
    \/ \E o \in DOMAIN Order : pay_now("GET", o)
    \/ \E pk \in MenuPks : menu_delete("GET", pk)

\* A GET request of one of the two views that do not.
UncheckedGet ==
    \/ \E s \in Sessions : clear_cart(s, "GET")
    \/ \E pk \in MenuPks : menu_toggle_availability("GET", pk)

\* C30: a request whose method is not POST never changes state: for
\* add_to_cart, update_cart_item, remove_from_cart, clear_cart, create_order,
\* pay_now, menu_delete and menu_toggle_availability it leaves the session
\* carts and every Menu, Order and OrderItem record unchanged.
C30_NonPostChangesNothing ==
    [][(CheckedGet \/ UncheckedGet) => UNCHANGED <<session, Menu, Order, OrderItem>>]_vars

\* What the code does fulfil: the six views that test request.method change
\* nothing on a GET request.
C30_CheckedViewsChangeNothing ==
    [][CheckedGet => UNCHANGED <<session, Menu, Order, OrderItem>>]_vars

====
